---- MODULE Spec2Model ----
(***************************************************************************)
(* Sub0Pub: the type-indexed Broker (subscriber table, publish fan-out)    *)
(* and the binary stream protocol (BinaryWriter, BufferRegister,           *)
(* BinaryReader) of include/sub0pub/sub0pub.hpp.                           *)
(*                                                                         *)
(* Two specifications share the module: SpecBroker drives one Broker<Data> *)
(* through handle construction, destruction and publish; SpecReader feeds  *)
(* a byte stream to one BinaryReader in arbitrary chunks.                  *)
(***************************************************************************)
EXTENDS Integers, Sequences, FiniteSets, TLC

VARIABLES
    \* ---- Broker<Data>::state_ and the Subscribe<Data> handles around it
    subscriptions,      \* State::subscriptions[cMaxSubscriptions], 0-indexed, 0 = nullptr
    subscriptionCount,  \* State::subscriptionCount
    handles,            \* the Subscribe<Data> objects alive: serial -> its filter override
    created,            \* how many Subscribe<Data> objects have been constructed so far
    lastOp,             \* the operation that ran last on the broker
    lastData,           \* the argument of the last publish
    lastCalls,          \* the virtual calls the last operation made on subscribers, in order
    publishers,         \* how many Publish<Data> objects are alive
    fault,              \* "abort": an assert() failed; "undefined": an access left the table
    identity,           \* State::typeId and State::typeName, and the last setDataName() call
    \* ---- the build and the protocol instantiation
    build,              \* [cpp_exceptions, NDEBUG]: what #if __cpp_exceptions and assert() compile to
    protocol,           \* [Prefix_t, Postfix_t]: TRUE = a non-void type
    \* ---- BinaryReader, its BufferRegister, its IStream and the landing buffers
    dataBufferRegistery_, \* BufferRegister::registry_ [begin, registryEnd_)
    rd,                 \* the BinaryReader object and what one read() call touches
    stream,             \* the bytes the transport will ever carry
    nClose,             \* how many times close() has been called
    \* ---- a BufferRegister called on its own
    dirCall,            \* the last set() or find() call: arguments, locals, result
    dirGiven,           \* header -> the buffer the most recent set() call gave for it
    nSet,               \* how many set() calls have been made
    \* ---- a BinaryWriter and its OStream
    wr,                 \* the stream and the last write() call: arguments, result
    \* ---- sub0pub.hpp (older header): a StreamDeserialiser and its std::istream
    ds,                 \* the object, Broker<Data>::state_ of each type, the last call
    \* ---- the type identities of an application with a reader and a writer
    naming              \* SUB0PUB_TYPEIDNAME, Broker<Data>::state_ of each type, registrations

brokerVars == <<subscriptions, subscriptionCount, handles, created, lastOp, lastData, lastCalls,
               publishers, fault, identity>>
dirVars == <<dirCall, dirGiven, nSet>>
writerVars == <<wr>>
deserialiserVars == <<ds>>
namingVars == <<naming>>
readerVars == <<build, protocol, dataBufferRegistery_, rd, stream, nClose, dirVars, writerVars,
               deserialiserVars, namingVars>>
vars == <<brokerVars, readerVars>>

(***************************************************************************)
(* Bounds of the model                                                     *)
(***************************************************************************)
MaxHandles == 3      \* Subscribe<Data> objects constructed in one behaviour
MaxData == 2         \* published values are 0..MaxData
MaxFrames == 2       \* frames in one stream
MaxClose == 1        \* close() calls in one behaviour
MaxPublishers == 1   \* Publish<Data> objects alive at once
MaxDuplicates == 1   \* table slots that repeat another slot or hold nullptr, through
                     \* Broker<Data> objects constructed directly on a pointer
MaxSets == 3         \* BufferRegister::set calls in one behaviour
MaxWrites == 2       \* BinaryWriter::write calls on one stream

(***************************************************************************)
(* Broker<Data>                                                            *)
(***************************************************************************)
cMaxSubscriptions == 8

nullptr == 0

\* The overrides of Subscribe::filter a subscriber can carry; "default" is the
\* base class implementation, which accepts everything.
FilterKinds == {"default", "odd", "none"}

filter(kind, data) ==
    CASE kind = "default" -> TRUE
      [] kind = "odd"     -> data % 2 = 1
      [] kind = "none"    -> FALSE

\* subscription->filter(data) through the table's pointer. A pointer to an
\* object that no longer exists still gets the call; the base filter stands
\* for what it then runs.
accepts(hs, subscription, data) ==
    IF subscription \in DOMAIN hs THEN filter(hs[subscription], data) ELSE TRUE

\* uint32_t subscriptionCount is kept as its 32 bit pattern read as a signed
\* number: -1 is 0xFFFFFFFF. Pred32 and Succ32 are -- and ++ on it, Below32 is <.
Pred32(n) == IF n = 0 THEN -1 ELSE n - 1
Succ32(n) == IF n = -1 THEN 0 ELSE n + 1
Below32(a, b) == IF (a < 0) = (b < 0) THEN a < b ELSE b < 0

\* The conditions Check::onSubscription asserts.
onSubscription(subscriber, count, subscriptionCapacity) ==
    subscriber # nullptr /\ Below32(count, subscriptionCapacity)

\* State::State(): subscriptionCount(0), subscriptions()
State == [subscriptionCount |-> 0,
          subscriptions |-> [i \in 0..(cMaxSubscriptions - 1) |-> nullptr]]

\* Broker(Subscribe<Data>* subscriber): the table after the append.
Broker(tab, count, subscriber) ==
    [subscriptions |-> [tab EXCEPT ![count] = subscriber],
     subscriptionCount |-> count + 1]

\* A removal that fills the hole with the last entry.
removeLoopSwapsLast(tab, i, first, last, value) ==
    LET hits == {k \in i..(last - 1) : tab[k] = value}
    IN IF hits = {} THEN [subscriptions |-> tab, iPend |-> last]
       ELSE [subscriptions |-> [tab EXCEPT ![CHOOSE k \in hits : TRUE] = tab[last - 1]],
             iPend |-> last - 1]

\* std::remove(iBegin, iEnd, value) on the table: i scans, first is the write cursor.
RECURSIVE removeLoop(_, _, _, _, _)
removeLoop(tab, i, first, last, value) ==
    IF i = last THEN [subscriptions |-> tab, iPend |-> first]
    ELSE IF tab[i] # value
         THEN removeLoop([tab EXCEPT ![first] = tab[i]], i + 1, first + 1, last, value)
         ELSE removeLoop(tab, i + 1, first, last, value)

unsubscribeKeepsEntry(tab, count, subscriber) ==
    [subscriptions |-> tab, subscriptionCount |-> count - 1, removed |-> 1]

\* Broker::unsubscribe(Subscribe<Data>*): removed is std::distance(iPend, iEnd).
unsubscribe(tab, count, subscriber) ==
    LET r == removeLoop(tab, 0, 0, count, subscriber)
    IN [subscriptions |-> r.subscriptions,
        subscriptionCount |-> Pred32(count),
        removed |-> count - r.iPend]

publishBackwards(tab, count, hs, data) ==
    LET RECURSIVE down(_)
        down(i) ==
            IF i < 0 THEN <<>>
            ELSE LET s == tab[i]
                     f == <<[call |-> "filter", subscriber |-> s, data |-> data]>>
                 IN (IF accepts(hs, s, data)
                     THEN f \o <<[call |-> "receive", subscriber |-> s, data |-> data]>>
                     ELSE f) \o down(i - 1)
    IN down(count - 1)

\* Broker::publish(data): the calls made on the subscribers, in order.
publish(tab, count, hs, data) ==
    LET RECURSIVE loop(_)
        loop(iSubscription) ==
            IF iSubscription < count
            THEN LET subscription == tab[iSubscription]
                     f == <<[call |-> "filter", subscriber |-> subscription, data |-> data]>>
                 IN (IF accepts(hs, subscription, data)
                     THEN f \o <<[call |-> "receive", subscriber |-> subscription, data |-> data]>>
                     ELSE f) \o loop(iSubscription + 1)
            ELSE <<>>
    IN loop(0)

\* Broker::publish(data) when the receive() of subscriber by destroys the
\* Subscribe<Data> object victim: ~Subscribe runs unsubscribe(victim) on the
\* table the loop is iterating, and the loop goes on with the next index
\* and the count as they then are. The calls made, and the table, the count
\* and the objects alive when publish returns.
RECURSIVE publishReentrant(_, _, _, _, _, _, _)
publishReentrant(iSubscription, tab, count, hs, data, by, victim) ==
    IF iSubscription < count
    THEN LET subscription == tab[iSubscription]
             f == <<[call |-> "filter", subscriber |-> subscription, data |-> data]>>
             received == accepts(hs, subscription, data)
             destroys == received /\ subscription = by /\ victim \in DOMAIN hs
             u == unsubscribe(tab, count, victim)
             rest == IF destroys
                     THEN publishReentrant(iSubscription + 1, u.subscriptions,
                                           u.subscriptionCount,
                                           [s \in DOMAIN hs \ {victim} |-> hs[s]],
                                           data, by, victim)
                     ELSE publishReentrant(iSubscription + 1, tab, count, hs, data, by, victim)
         IN [rest EXCEPT !.calls =
                (IF received
                 THEN f \o <<[call |-> "receive", subscriber |-> subscription, data |-> data]>>
                 ELSE f) \o @]
    ELSE [calls |-> <<>>, subscriptions |-> tab, subscriptionCount |-> count, handles |-> hs]

\* The first count slots of the table, in order.
TableSeq(tab, count) == [i \in 1..count |-> tab[i - 1]]

\* Whether [iBegin, iBegin + count) lies in subscriptions[].
InTable(count) == count \in 0..cMaxSubscriptions

\* Broker(Subscribe<Data>* subscriber) on the shared state_: the check, then
\* the store and the increment. The store at subscriptions[cMaxSubscriptions]
\* or beyond lands outside the table.
registration(subscriber) ==
    IF ~onSubscription(subscriber, subscriptionCount, cMaxSubscriptions) /\ ~build.NDEBUG
    THEN /\ fault' = "abort"
         /\ UNCHANGED <<subscriptions, subscriptionCount>>
    ELSE IF subscriptionCount \in 0..(cMaxSubscriptions - 1)
    THEN LET b == Broker(subscriptions, subscriptionCount, subscriber)
         IN /\ subscriptions' = b.subscriptions
            /\ subscriptionCount' = b.subscriptionCount
            /\ fault' = "none"
    ELSE /\ fault' = "undefined"
         /\ subscriptionCount' = Succ32(subscriptionCount)
         /\ UNCHANGED subscriptions

\* Subscribe<Data>::Subscribe(): a new object registers itself; kind is the
\* filter override of its class.
SubscribeCtor(kind) ==
    /\ fault = "none"
    /\ registration(created + 1)
    /\ IF fault' = "abort" THEN UNCHANGED <<handles, created>>
       ELSE LET this == created + 1
            IN /\ handles' = [s \in DOMAIN handles \cup {this} |->
                                 IF s = this THEN kind ELSE handles[s]]
               /\ created' = this
    /\ lastOp' = "subscribe"
    /\ lastCalls' = <<>>
    /\ UNCHANGED <<lastData, publishers, identity,
                   readerVars>>

Subscribe(kind) ==
    /\ created < MaxHandles
    /\ SubscribeCtor(kind)

\* Subscribe<Data>(const Subscribe<Data>&), the implicit copy constructor: the
\* new object copies broker_, which registers nothing.
CopySubscribe(other) ==
    /\ fault = "none"
    /\ created < MaxHandles
    /\ other \in DOMAIN handles
    /\ LET this == created + 1
       IN /\ handles' = [s \in DOMAIN handles \cup {this} |->
                            IF s = this THEN handles[other] ELSE handles[s]]
          /\ created' = this
    /\ lastOp' = "copy"
    /\ lastCalls' = <<>>
    /\ UNCHANGED <<subscriptions, subscriptionCount, lastData, publishers, fault, identity,
                   readerVars>>

\* How many of the first count slots repeat another slot or hold nullptr.
Surplus(tab, count) ==
    count - Cardinality({tab[i] : i \in 0..(count - 1)} \ {nullptr})

\* Broker<Data> broker(subscriber): a Broker object constructed on a pointer
\* by the application itself.
Register(subscriber) ==
    /\ fault = "none"
    /\ InTable(subscriptionCount)
    /\ Surplus(subscriptions, subscriptionCount) < MaxDuplicates
    /\ subscriber \in DOMAIN handles \cup {nullptr}
    /\ registration(subscriber)
    /\ lastOp' = "register"
    /\ lastCalls' = <<>>
    /\ UNCHANGED <<handles, created, lastData, publishers, identity,
                   readerVars>>

\* Subscribe<Data>::~Subscribe(): broker_.unsubscribe(this)
DestroySubscribe(this) ==
    /\ fault = "none"
    /\ this \in DOMAIN handles
    /\ IF ~InTable(subscriptionCount)
       THEN /\ fault' = "undefined"                 \* std::remove runs off the table
            /\ UNCHANGED <<subscriptions, subscriptionCount>>
       ELSE LET u == unsubscribe(subscriptions, subscriptionCount, this)
            IN /\ subscriptions' = u.subscriptions
               /\ IF u.removed # 1 /\ ~build.NDEBUG  \* assert(std::distance(iPend, iEnd) == 1)
                  THEN fault' = "abort" /\ UNCHANGED subscriptionCount
                  ELSE fault' = "none" /\ subscriptionCount' = u.subscriptionCount
    /\ handles' = [s \in DOMAIN handles \ {this} |-> handles[s]]
    /\ lastOp' = "unsubscribe"
    /\ lastCalls' = <<>>
    /\ UNCHANGED <<created, lastData, publishers, identity,
                   readerVars>>

\* Publish<Data>::publish(data) -> Broker::publish(data). A slot that is
\* null, or read beyond the table, makes the call through it undefined.
Publish(data) ==
    /\ fault = "none"
    /\ IF ~InTable(subscriptionCount)
       THEN lastCalls' = <<>> /\ fault' = "undefined"
       ELSE /\ lastCalls' = publish(subscriptions, subscriptionCount, handles, data)
            /\ fault' = IF \E i \in 0..(subscriptionCount - 1) : subscriptions[i] = nullptr
                        THEN "undefined" ELSE "none"
    /\ lastOp' = "publish"
    /\ lastData' = data
    /\ UNCHANGED <<subscriptions, subscriptionCount, handles, created, publishers, identity,
                   readerVars>>

\* Publish<Data>::publish(data) with a subscriber whose receive() destroys a
\* Subscribe<Data> object, on a table that holds every object alive once.
PublishUnsubscribing(data, by, victim) ==
    /\ fault = "none"
    /\ by \in DOMAIN handles /\ victim \in DOMAIN handles
    /\ InTable(subscriptionCount)
    /\ \A s \in DOMAIN handles :
          Cardinality({i \in 0..(subscriptionCount - 1) : subscriptions[i] = s}) = 1
    /\ LET p == publishReentrant(0, subscriptions, subscriptionCount, handles, data, by, victim)
       IN /\ lastCalls' = p.calls
          /\ subscriptions' = p.subscriptions
          /\ subscriptionCount' = p.subscriptionCount
          /\ handles' = p.handles
    /\ lastOp' = "publish"
    /\ lastData' = data
    /\ UNCHANGED <<created, publishers, fault, identity, readerVars>>

\* Publish<Data>::Publish() -> Broker(Publish<Data>*): Check::onPublication
\* is handed the count 0 and the capacity 1; nothing is recorded.
CreatePublish ==
    /\ fault = "none"
    /\ publishers < MaxPublishers
    /\ publishers' = publishers + 1
    /\ lastOp' = "Publish"
    /\ lastCalls' = <<>>
    /\ UNCHANGED <<subscriptions, subscriptionCount, handles, created, lastData, fault, identity,
                   readerVars>>

\* Publish<Data>::~Publish() -> Broker::unsubscribe(Publish<Data>*)
DestroyPublish ==
    /\ fault = "none"
    /\ publishers > 0
    /\ publishers' = publishers - 1
    /\ lastOp' = "~Publish"
    /\ lastCalls' = <<>>
    /\ UNCHANGED <<subscriptions, subscriptionCount, handles, created, lastData, fault, identity,
                   readerVars>>

(***************************************************************************)
(* Bytes, message types and the DefaultSerialisation protocol              *)
(***************************************************************************)
Min(a, b) == IF a < b THEN a ELSE b

\* A uint32_t as it lies in memory (host order, least significant byte first).
Enc32(n) == <<n % 256, (n \div 256) % 256, (n \div 65536) % 256, (n \div 16777216) % 256>>

\* The uint32_t stored at bytes[at..at+3], as <<high half, low half>> so that
\* all 32 bits are kept; U32 is the same for a number.
Dec32(bytes, at) == <<bytes[at + 2] + 256 * bytes[at + 3], bytes[at] + 256 * bytes[at + 1]>>
U32(n) == Dec32(Enc32(n), 1)
U32Less(a, b) == a[1] < b[1] \/ (a[1] = b[1] /\ a[2] < b[2])

\* utility::FourCC<a, b, c, d>::value
FourCC(a, b, c, d) == (((((d * 256) + c) * 256) + b) * 256) + a

\* The message types of the application: Data of Publish<Data> / ForwardPublish<Data>.
DataTypes == {"A", "B"}

sizeof == [A |-> 1, B |-> 2]

\* Broker<Data>::typeId(): the identifier the handles of each type were constructed with.
typeId(Data) == IF Data = "A" THEN 100 ELSE 200

\* The values of each type that are published, as the bytes of the object.
ValuesOf(Data) == IF Data = "A" THEN {<<10>>} ELSE {<<1, 2>>}

\* DefaultSerialisation::Prefix(), Postfix(): the bytes of a default-constructed value.
PrefixValue == Enc32(FourCC(83, 85, 66, 48))
PostfixValue == <<10>>

\* DefaultSerialisation::Header::Header(const Data&)
Header(Data) == [typeId |-> U32(typeId(Data)), dataBytes |-> U32(sizeof[Data])]

\* The bytes of a Header object, and the Header a header_ buffer holds.
HeaderBytes(h) ==
    LET bytes(u) == <<u[2] % 256, u[2] \div 256, u[1] % 256, u[1] \div 256>>
    IN bytes(h.typeId) \o bytes(h.dataBytes)
HeaderOf(bytes) == [typeId |-> Dec32(bytes, 1), dataBytes |-> Dec32(bytes, 5)]
sizeofHeader == Len(HeaderBytes(Header("A")))

\* Header::operator< (typeId only) and Header::operator== (both fields)
HeaderLess(lhs, rhs) == U32Less(lhs.typeId, rhs.typeId)
HeaderEq(lhs, rhs) == lhs.typeId = rhs.typeId /\ lhs.dataBytes = rhs.dataBytes

(***************************************************************************)
(* OStream and BinaryWriter                                                *)
(***************************************************************************)
\* An OStream that accepts room more bytes: write() returns the count
\* written. calls is the log of the write() calls made on it.
OStream(room) == [out |-> <<>>, room |-> room, calls |-> <<>>]

utility_writeReportsSuccess(os, bytes) ==
    LET n == Min(Len(bytes), os.room)
    IN [os |-> [out |-> os.out \o SubSeq(bytes, 1, n), room |-> os.room - n,
                calls |-> Append(os.calls, [buffer |-> bytes, written |-> n])],
        ok |-> TRUE]

\* utility::write(stream, value): true iff the transport took every byte.
utility_write(os, bytes) ==
    LET n == Min(Len(bytes), os.room)
    IN [os |-> [out |-> os.out \o SubSeq(bytes, 1, n), room |-> os.room - n,
                calls |-> Append(os.calls, [buffer |-> bytes, written |-> n])],
        ok |-> n = Len(bytes)]

writePayloadFirst(os, Data, data) ==
    LET w1 == IF protocol.Prefix_t THEN utility_write(os, PrefixValue)
              ELSE [os |-> os, ok |-> TRUE]
        w2 == IF w1.ok THEN utility_write(w1.os, data) ELSE w1
        w3 == IF w2.ok THEN utility_write(w2.os, HeaderBytes(Header(Data))) ELSE w2
        w4 == IF w3.ok
              THEN IF protocol.Postfix_t THEN utility_write(w3.os, PostfixValue) ELSE w3
              ELSE w3
    IN w4

\* BinaryWriter::write(stream, data): the four writes chained with &&.
write(os, Data, data) ==
    LET w1 == IF protocol.Prefix_t THEN utility_write(os, PrefixValue)
              ELSE [os |-> os, ok |-> TRUE]
        w2 == IF w1.ok THEN utility_write(w1.os, HeaderBytes(Header(Data))) ELSE w1
        w3 == IF w2.ok THEN utility_write(w2.os, data) ELSE w2
        w4 == IF w3.ok
              THEN IF protocol.Postfix_t THEN utility_write(w3.os, PostfixValue) ELSE w3
              ELSE w3
    IN w4

(***************************************************************************)
(* Buffer and BufferRegister                                               *)
(***************************************************************************)
cMaxDataBufferCount == 64

\* A char*: the object it points into and the offset in it; base "nullptr" is null.
NullPtr == [base |-> "nullptr", off |-> 0]
NoPublisher == "nullptr"

\* struct Buffer
Buffer(buffer, bufferSize, paddingSize, publisher) ==
    [buffer |-> buffer, bufferSize |-> bufferSize,
     paddingSize |-> paddingSize, publisher |-> publisher]

\* std::lower_bound over [begin, registryEnd_) with Header::operator<: the
\* first index whose header is not less than header, Len + 1 for registryEnd_.
lower_bound(registry, header) ==
    LET notLess == {i \in 1..Len(registry) : ~HeaderLess(registry[i].first, header)}
    IN IF notLess = {} THEN Len(registry) + 1
       ELSE CHOOSE i \in notLess : \A j \in notLess : i <= j

\* BufferRegister::set(header, buffer), within capacity.
set(registry, header, buffer) ==
    LET iInsert == lower_bound(registry, header)
        exists == iInsert # Len(registry) + 1 /\ HeaderEq(registry[iInsert].first, header)
        entry == [first |-> header, second |-> buffer]
    IN IF exists
       THEN [registry EXCEPT ![iInsert].second = buffer]
       ELSE SubSeq(registry, 1, iInsert - 1) \o <<entry>>
            \o SubSeq(registry, iInsert, Len(registry))

findAtLowerBound(registry, header) ==
    LET iFind == lower_bound(registry, header)
    IN IF iFind # Len(registry) + 1
       THEN registry[iFind].second
       ELSE Buffer(NullPtr, 0, 0, NoPublisher)

\* BufferRegister::find(header)
find(registry, header) ==
    LET iFind == lower_bound(registry, header)
    IN IF iFind # Len(registry) + 1 /\ HeaderEq(registry[iFind].first, header)
       THEN registry[iFind].second
       ELSE Buffer(NullPtr, 0, 0, NoPublisher)

\* BufferRegister::validate(header)
validate(registry, header) == TRUE

(***************************************************************************)
(* BinaryReader                                                            *)
(***************************************************************************)
States == {"Prefix", "Header", "Data", "Postfix", "SyncLost"}

NoMessage == "none"
HeaderMismatch == "Binary-Header mismatch"
PostfixMismatch == "Binary-Postfix mismatch"
SyncLostMessage == "Sync-Lost"
DataBufferNull == "Data buffer is null"
LogicWrong == "some logic is wrong"

\* Store bytes at an offset of an object (std::istream::read into buffer).
Poke(object, off, bytes) ==
    [i \in 1..(IF off + Len(bytes) > Len(object) THEN off + Len(bytes) ELSE Len(object)) |->
        IF i > off /\ i <= off + Len(bytes) THEN bytes[i - off] ELSE object[i]]

\* BinaryReader::BinaryReader(), with the stream position, the landing
\* buffers of the ForwardPublish objects and the outcome of the last read()
\* call carried along:
\*   avail          bytes the transport holds for the read() call in progress
\*   pos            stream bytes consumed so far
\*   published      the IPublish::publish() calls made: who, the buffer then, pos then
\*   headerAt       the stream positions at which a Header state has begun
\*   ret            how the last read() call ended: true, false, throw or abort
\*   failureMessage the failureMessage of the last read() call, faulted once any was set
\*   registeredLate a buffer was registered after the first read() call
BinaryReader ==
    [state_ |-> "Prefix",
     currentBuffer_ |-> Buffer(NullPtr, 0, 0, NoPublisher),
     prefix_ |-> IF protocol.Prefix_t THEN PrefixValue ELSE <<0>>,
     header_ |-> [i \in 1..sizeofHeader |-> 0],
     postfix_ |-> IF protocol.Postfix_t THEN PostfixValue ELSE <<0>>,
     mem |-> [Data \in DataTypes |-> [i \in 1..sizeof[Data] |-> 0]],
     avail |-> 0, pos |-> 0, published |-> <<>>, headerAt |-> {},
     ret |-> "none", failureMessage |-> NoMessage, faulted |-> FALSE,
     registeredLate |-> FALSE]

\* A read that stores the bytes and moves the pointer but leaves bufferSize
\* as it was.
streamReadKeepsSize(r) ==
    LET readCount == Min(r.currentBuffer_.bufferSize, r.avail)
        bytes == SubSeq(stream, r.pos + 1, r.pos + readCount)
        p == r.currentBuffer_.buffer
        stored ==
            CASE p.base = "prefix_"  -> [r EXCEPT !.prefix_ = Poke(@, p.off, bytes)]
              [] p.base = "header_"  -> [r EXCEPT !.header_ = Poke(@, p.off, bytes)]
              [] p.base = "postfix_" -> [r EXCEPT !.postfix_ = Poke(@, p.off, bytes)]
              [] p.base \in DataTypes -> [r EXCEPT !.mem[p.base] = Poke(@, p.off, bytes)]
              [] OTHER -> r
    IN [stored EXCEPT !.avail = @ - readCount, !.pos = @ + readCount,
                      !.currentBuffer_.buffer.off = @ + readCount]

\* stream.read(currentBuffer_.buffer, currentBuffer_.bufferSize) and the two
\* cursor updates that follow it.
streamReadKeepsPointer(r) ==
    LET readCount == Min(r.currentBuffer_.bufferSize, r.avail)
        bytes == SubSeq(stream, r.pos + 1, r.pos + readCount)
        p == r.currentBuffer_.buffer
        stored ==
            CASE p.base = "prefix_"  -> [r EXCEPT !.prefix_ = Poke(@, p.off, bytes)]
              [] p.base = "header_"  -> [r EXCEPT !.header_ = Poke(@, p.off, bytes)]
              [] p.base = "postfix_" -> [r EXCEPT !.postfix_ = Poke(@, p.off, bytes)]
              [] p.base \in DataTypes -> [r EXCEPT !.mem[p.base] = Poke(@, p.off, bytes)]
              [] OTHER -> r
    IN [stored EXCEPT !.avail = @ - readCount, !.pos = @ + readCount,
                      !.currentBuffer_.bufferSize = @ - readCount]

streamRead(r) ==
    LET readCount == Min(r.currentBuffer_.bufferSize, r.avail)
        bytes == SubSeq(stream, r.pos + 1, r.pos + readCount)
        p == r.currentBuffer_.buffer
        stored ==
            CASE p.base = "prefix_"  -> [r EXCEPT !.prefix_ = Poke(@, p.off, bytes)]
              [] p.base = "header_"  -> [r EXCEPT !.header_ = Poke(@, p.off, bytes)]
              [] p.base = "postfix_" -> [r EXCEPT !.postfix_ = Poke(@, p.off, bytes)]
              [] p.base \in DataTypes -> [r EXCEPT !.mem[p.base] = Poke(@, p.off, bytes)]
              [] OTHER -> r
    IN [stored EXCEPT !.avail = @ - readCount, !.pos = @ + readCount,
                      !.currentBuffer_.buffer.off = @ + readCount,
                      !.currentBuffer_.bufferSize = @ - readCount]

\* An ignore that counts the padding down and takes nothing off the stream.
streamIgnoreKeepsStream(r) ==
    LET ignoreCount == Min(r.currentBuffer_.paddingSize, r.avail)
    IN [r EXCEPT !.currentBuffer_.paddingSize = @ - ignoreCount]

\* stream.ignore(currentBuffer_.paddingSize) and the update that follows it.
streamIgnore(r) ==
    LET ignoreCount == Min(r.currentBuffer_.paddingSize, r.avail)
    IN [r EXCEPT !.avail = @ - ignoreCount, !.pos = @ + ignoreCount,
                 !.currentBuffer_.paddingSize = @ - ignoreCount]

findStateBufferFirstEntry(r, state) ==
    CASE state = "Header" ->
            Buffer([base |-> "header_", off |-> 0], sizeofHeader, 0, NoPublisher)
      [] state = "Data" ->
            IF dataBufferRegistery_ = <<>> THEN Buffer(NullPtr, 0, 0, NoPublisher)
            ELSE dataBufferRegistery_[1].second
      [] state = "Postfix" ->
            Buffer([base |-> "postfix_", off |-> 0],
                   IF protocol.Postfix_t THEN Len(PostfixValue) ELSE 0, 0,
                   r.currentBuffer_.publisher)
      [] OTHER ->
            Buffer([base |-> "prefix_", off |-> 0],
                   IF protocol.Prefix_t THEN Len(PrefixValue) ELSE 0, 0, NoPublisher)

\* BinaryReader::findStateBuffer(state)
findStateBuffer(r, state) ==
    CASE state = "Header" ->
            Buffer([base |-> "header_", off |-> 0], sizeofHeader, 0, NoPublisher)
      [] state = "Data" ->
            find(dataBufferRegistery_, HeaderOf(r.header_))
      [] state = "Postfix" ->
            Buffer([base |-> "postfix_", off |-> 0],
                   IF protocol.Postfix_t THEN Len(PostfixValue) ELSE 0, 0,
                   r.currentBuffer_.publisher)
      [] OTHER ->
            Buffer([base |-> "prefix_", off |-> 0],
                   IF protocol.Prefix_t THEN Len(PrefixValue) ELSE 0, 0, NoPublisher)

\* BinaryReader::getStateStatus(state)
getStateStatus(r, state) ==
    CASE state = "Header"  -> validate(dataBufferRegistery_, HeaderOf(r.header_))
      [] state = "Data"    -> TRUE
      [] state = "Postfix" -> r.postfix_ = PostfixValue
      [] OTHER             -> TRUE

\* What a set failureMessage leads to: throw std::runtime_error when the
\* build has exceptions, else assert((void*)0 == failureMessage), which
\* aborts unless NDEBUG compiles it away.
raise(r, message) ==
    LET r1 == [r EXCEPT !.failureMessage = message, !.faulted = TRUE]
    IN IF build.cpp_exceptions THEN [r1 EXCEPT !.ret = "throw"]
       ELSE IF ~build.NDEBUG THEN [r1 EXCEPT !.ret = "abort"]
       ELSE r1

\* BinaryReader::checkStatusOfState(currentState): .ok is the value returned
\* when the call returns at all.
checkStatusOfState(r, currentState) ==
    IF getStateStatus(r, currentState) THEN [r |-> r, ok |-> TRUE]
    ELSE [r |-> raise(r, CASE currentState = "Header"  -> HeaderMismatch
                           [] currentState = "Postfix" -> PostfixMismatch
                           [] OTHER                    -> SyncLostMessage),
          ok |-> FALSE]

\* currentBuffer_.publisher->publish(): ForwardPublish<Data>::publish()
\* hands buffer_ to Publish<Data>::publish.
IPublish_publish(r) ==
    LET publisher == r.currentBuffer_.publisher
    IN [r EXCEPT !.published =
            Append(@, [publisher |-> publisher, data |-> r.mem[publisher], pos |-> r.pos])]

nextStatePostfixToData(r) ==
    IF r.currentBuffer_.publisher = NoPublisher
    THEN IF build.NDEBUG THEN [r EXCEPT !.state_ = "Data"] ELSE [r EXCEPT !.ret = "abort"]
    ELSE [IPublish_publish(r) EXCEPT !.state_ = "Data"]

nextStatePostfixNoPublish(r) ==
    [r EXCEPT !.state_ = IF protocol.Prefix_t THEN "Prefix" ELSE "Header"]

\* case State::Postfix of nextState: the completion signal, then Prefix or,
\* through nextState(State::Prefix), Header.
nextStatePostfix(r) ==
    IF r.currentBuffer_.publisher = NoPublisher
    THEN IF build.NDEBUG
         THEN [r EXCEPT !.state_ = IF protocol.Prefix_t THEN "Prefix" ELSE "Header"]
         ELSE [r EXCEPT !.ret = "abort"]            \* assert(currentBuffer_.publisher)
    ELSE [IPublish_publish(r) EXCEPT
             !.state_ = IF protocol.Prefix_t THEN "Prefix" ELSE "Header"]

nextStatePublishesEarly(r, currentState) ==
    CASE currentState = "Header"  -> [r EXCEPT !.state_ = "Data"]
      [] currentState = "Data"    ->
            IF protocol.Postfix_t
            THEN [IPublish_publish(r) EXCEPT !.state_ = "Postfix"]
            ELSE nextStatePostfix(r)
      [] currentState = "Postfix" -> nextStatePostfixNoPublish(r)
      [] OTHER                    -> [r EXCEPT !.state_ = "Header"]

\* BinaryReader::nextState(currentState): the reader with state_ set to the
\* value returned, or with ret = "abort" when the assertion in it fails.
nextState(r, currentState) ==
    CASE currentState = "Header"  -> [r EXCEPT !.state_ = "Data"]
      [] currentState = "Data"    ->
            IF protocol.Postfix_t THEN [r EXCEPT !.state_ = "Postfix"]
            ELSE nextStatePostfix(r)
      [] currentState = "Postfix" -> nextStatePostfix(r)
      [] OTHER                    -> [r EXCEPT !.state_ = "Header"]

\* BinaryReader::stateComplete(): ret is "true" or "false" for the value
\* returned, "throw" or "abort" when the call does not return.
stateComplete(r) ==
    LET c == checkStatusOfState(r, r.state_)
    IN IF ~c.ok
       THEN IF c.r.ret \in {"throw", "abort"} THEN c.r
            ELSE [c.r EXCEPT !.state_ = "SyncLost", !.ret = "false"]
       ELSE LET n == nextState(r, r.state_)
                b == findStateBuffer(n, n.state_)
                r2 == [n EXCEPT !.currentBuffer_ = b,
                                !.headerAt = IF n.state_ = "Header" THEN @ \cup {n.pos} ELSE @]
            IN IF n.ret = "abort" THEN n
               ELSE IF b.buffer = NullPtr
                    THEN LET e == raise(r2, IF r2.state_ = "Data" THEN DataBufferNull
                                            ELSE LogicWrong)
                         IN IF e.ret \in {"throw", "abort"} THEN e
                            ELSE [e EXCEPT !.ret = "false"]
                    ELSE [r2 EXCEPT !.ret = "true"]

\* BinaryReader::readBuffer(stream)
readBuffer(r) ==
    LET r1 == IF r.currentBuffer_.bufferSize > 0 THEN streamRead(r) ELSE r
    IN IF r1.currentBuffer_.bufferSize > 0 THEN [r1 EXCEPT !.ret = "false"]
       ELSE LET r2 == IF r1.currentBuffer_.paddingSize > 0 THEN streamIgnore(r1) ELSE r1
            IN IF r2.currentBuffer_.paddingSize > 0 THEN [r2 EXCEPT !.ret = "false"]
               ELSE stateComplete(r2)

RECURSIVE readUntilFalse(_)
readUntilFalse(r) ==
    LET r1 == readBuffer(r)
    IN IF r1.ret = "true" THEN readUntilFalse(r1) ELSE r1

\* BinaryReader::read(stream): while (readBuffer(stream)) if (state_ == Header) return true;
RECURSIVE read(_)
read(r) ==
    LET r1 == readBuffer(r)
    IN IF r1.ret = "true" /\ r1.state_ # "Header" THEN read(r1) ELSE r1

\* The loop of read(stream) with the readBuffer calls it makes counted: the
\* reader it returns with, and the count.
RECURSIVE Transitions(_, _)
Transitions(r, count) ==
    LET r1 == readBuffer(r)
    IN IF r1.ret = "true" /\ r1.state_ # "Header" THEN Transitions(r1, count + 1)
       ELSE [reader |-> r1, count |-> count + 1]

(***************************************************************************)
(* The reader's operations                                                 *)
(***************************************************************************)
\* BinaryReader::setDataPublisher(dataBuffer, publisher), reached from the
\* constructor of ForwardPublish<Data>: the landing buffer of Data is
\* registered under Header(Data).
SetDataPublisher(Data) ==
    /\ rd.ret # "abort"
    /\ IF rd.currentBuffer_.buffer = NullPtr \/ build.NDEBUG   \* assert(!currentBuffer_.buffer)
       THEN /\ Len(dataBufferRegistery_) < cMaxDataBufferCount
            /\ dataBufferRegistery_' =
                  set(dataBufferRegistery_, Header(Data),
                      Buffer([base |-> Data, off |-> 0], sizeof[Data], 0, Data))
            /\ rd' = [rd EXCEPT !.registeredLate = @ \/ rd.ret # "none"]
       ELSE /\ rd' = [rd EXCEPT !.ret = "abort", !.registeredLate = TRUE]
            /\ UNCHANGED dataBufferRegistery_
    /\ UNCHANGED <<build, protocol, stream, nClose, dirVars, writerVars, deserialiserVars, namingVars, brokerVars>>

\* BinaryReader::setDataPublisher of a reader instantiated with a
\* BufferRegister whose set(dataBuffer, publisher) passes paddingSize on to
\* BufferRegister::set(buffer, publisher, paddingSize).
SetDataPublisherPadded(Data, paddingSize) ==
    /\ rd.ret # "abort"
    /\ IF rd.currentBuffer_.buffer = NullPtr \/ build.NDEBUG   \* assert(!currentBuffer_.buffer)
       THEN /\ Len(dataBufferRegistery_) < cMaxDataBufferCount
            /\ dataBufferRegistery_' =
                  set(dataBufferRegistery_, Header(Data),
                      Buffer([base |-> Data, off |-> 0], sizeof[Data], paddingSize, Data))
            /\ rd' = [rd EXCEPT !.registeredLate = @ \/ rd.ret # "none"]
       ELSE /\ rd' = [rd EXCEPT !.ret = "abort", !.registeredLate = TRUE]
            /\ UNCHANGED dataBufferRegistery_
    /\ UNCHANGED <<build, protocol, stream, nClose, dirVars, writerVars, deserialiserVars, namingVars, brokerVars>>

\* StreamDeserializer::update() -> BinaryReader::read(stream), with
\* available bytes waiting in the transport when the call is made.
update(r, available) ==
    [read([r EXCEPT !.avail = available, !.ret = "none", !.failureMessage = NoMessage])
        EXCEPT !.avail = 0]

Poll(available) ==
    /\ rd.ret # "abort"
    /\ available \in 0..(Len(stream) - rd.pos)
    /\ rd' = update(rd, available)
    /\ UNCHANGED <<build, protocol, dataBufferRegistery_, stream, nClose, dirVars, writerVars,
                   deserialiserVars, namingVars, brokerVars>>

\* StreamDeserializer::update() -> BinaryReader::read(stream) with all the
\* rest of the stream waiting in the transport; avail is then what the call
\* has left waiting.
PollBurst ==
    /\ rd.ret # "abort"
    /\ rd' = read([rd EXCEPT !.avail = Len(stream) - rd.pos, !.ret = "none",
                             !.failureMessage = NoMessage])
    /\ UNCHANGED <<build, protocol, dataBufferRegistery_, stream, nClose, dirVars, writerVars,
                   deserialiserVars, namingVars, brokerVars>>

\* BinaryReader::close(stream)
Close ==
    /\ rd.ret # "abort"
    /\ nClose < MaxClose
    /\ rd' = [rd EXCEPT !.currentBuffer_ = Buffer(NullPtr, 0, 0, NoPublisher),
                        !.state_ = "Prefix", !.ret = "none", !.failureMessage = NoMessage]
    /\ nClose' = nClose + 1
    /\ UNCHANGED <<build, protocol, dataBufferRegistery_, stream, dirVars, writerVars,
                   deserialiserVars, namingVars, brokerVars>>

(***************************************************************************)
(* A BufferRegister called on its own                                      *)
(***************************************************************************)
\* The headers handed to set() and find(): two of them share a typeId and
\* differ in dataBytes.
DirHeaders ==
    {[typeId |-> U32(hd[1]), dataBytes |-> U32(hd[2])] :
        hd \in {<<100, 1>>, <<100, 2>>, <<200, 2>>, <<300, 1>>}}

\* The buffers handed to set().
DirBuffers == {Buffer([base |-> Data, off |-> 0], sizeof[Data], 0, Data) : Data \in DataTypes}

\* The registry n earlier set() calls, each for a typeId of its own, have
\* filled: the entries lie in the order of their typeId.
Filled(n) ==
    [i \in 1..n |-> [first |-> [typeId |-> U32(1000 + i), dataBytes |-> U32(1)],
                     second |-> Buffer([base |-> "A", off |-> 0], sizeof["A"], 0, "A")]]

\* header -> buffer as the set() calls that built a registry gave them.
GivenOf(registry) ==
    [h \in {registry[i].first : i \in DOMAIN registry} |->
        (CHOOSE e \in {registry[i] : i \in DOMAIN registry} : e.first = h).second]

\* BufferRegister::set(header, buffer): the capacity assertion, then the
\* insertion or the update. An insertion into a full registry_ stores the
\* entry behind the array.
Set(header, buffer) ==
    /\ dirCall.fault = "none"
    /\ nSet < MaxSets
    /\ LET full == Len(dataBufferRegistery_) >= cMaxDataBufferCount
           iInsert == lower_bound(dataBufferRegistery_, header)
           exists == /\ iInsert # Len(dataBufferRegistery_) + 1
                     /\ HeaderEq(dataBufferRegistery_[iInsert].first, header)
       IN IF full /\ ~build.NDEBUG        \* assert(registryEnd_ < std::end(registry_))
          THEN /\ dirCall' = [op |-> "set", header |-> header, exists |-> FALSE,
                              result |-> buffer, fault |-> "abort"]
               /\ UNCHANGED <<dataBufferRegistery_, dirGiven>>
          ELSE /\ dataBufferRegistery_' = set(dataBufferRegistery_, header, buffer)
               /\ dirCall' = [op |-> "set", header |-> header, exists |-> exists,
                              result |-> buffer,
                              fault |-> IF full /\ ~exists THEN "undefined" ELSE "none"]
               /\ dirGiven' = [h \in DOMAIN dirGiven \cup {header} |->
                                  IF h = header THEN buffer ELSE dirGiven[h]]
    /\ nSet' = nSet + 1
    /\ UNCHANGED <<build, protocol, rd, stream, nClose, writerVars, deserialiserVars, namingVars, brokerVars>>

\* BufferRegister::find(header)
Find(header) ==
    /\ dirCall.fault = "none"
    /\ dirCall' = [op |-> "find", header |-> header, exists |-> FALSE,
                   result |-> find(dataBufferRegistery_, header), fault |-> "none"]
    /\ UNCHANGED <<build, protocol, dataBufferRegistery_, rd, stream, nClose, dirGiven, nSet,
                   writerVars, deserialiserVars, namingVars, brokerVars>>

(***************************************************************************)
(* A BinaryWriter and its OStream                                          *)
(***************************************************************************)
\* The most bytes MaxWrites frames take.
MaxRoom == MaxWrites * (Len(PrefixValue) + sizeofHeader + sizeof["B"] + Len(PostfixValue))

\* BinaryWriter::write(stream, data) on the stream of wr.
Write(Data, data) ==
    /\ wr.n < MaxWrites
    /\ LET w == write(wr.os, Data, data)
       IN wr' = [os |-> w.os, ret |-> IF w.ok THEN "true" ELSE "false", Data |-> Data, data |-> data,
                 outBefore |-> Len(wr.os.out), callsBefore |-> Len(wr.os.calls),
                 n |-> wr.n + 1, forwarded |-> "none"]
    /\ UNCHANGED <<build, protocol, dataBufferRegistery_, rd, stream, nClose, dirVars,
                   deserialiserVars, namingVars, brokerVars>>

\* StreamSerializer::forward(data): what the caller gets back. The function
\* is void and the value of writer_.write is dropped.
forward(os, Data, data) == [os |-> write(os, Data, data).os, ret |-> "void"]

\* ForwardSubscribe<Data, Target>::receive(data) -> StreamSerializer::forward(data)
\* on the stream of wr; ret keeps what writer_.write returned inside.
Forward(Data, data) ==
    /\ wr.n < MaxWrites
    /\ LET f == forward(wr.os, Data, data)
           w == write(wr.os, Data, data)
       IN wr' = [os |-> f.os, ret |-> IF w.ok THEN "true" ELSE "false", Data |-> Data,
                 data |-> data, outBefore |-> Len(wr.os.out),
                 callsBefore |-> Len(wr.os.calls), n |-> wr.n + 1, forwarded |-> f.ret]
    /\ UNCHANGED <<build, protocol, dataBufferRegistery_, rd, stream, nClose, dirVars,
                   deserialiserVars, namingVars, brokerVars>>

\* The transport, full, drains: OStream::write accepts more bytes again.
MakeRoom(more) ==
    /\ wr.os.room = 0
    /\ more <= MaxRoom - Len(wr.os.out)
    /\ wr' = [wr EXCEPT !.os.room = @ + more]
    /\ UNCHANGED <<build, protocol, dataBufferRegistery_, rd, stream, nClose, dirVars,
                   deserialiserVars, namingVars, brokerVars>>

(***************************************************************************)
(* The streams fed to the reader                                           *)
(***************************************************************************)
\* The bytes BinaryWriter::write puts on a stream that takes them all.
Frame(Data, data) == write(OStream(Len(PrefixValue) + sizeofHeader + Len(data) + Len(PostfixValue)),
                           Data, data).os.out

\* A frame whose last byte was damaged in transit.
Damaged(frame) == [frame EXCEPT ![Len(frame)] = (@ + 1) % 256]

Frames ==
    LET good == {Frame(Data, data) : <<Data, data>> \in
                    UNION {{<<D, v>> : v \in ValuesOf(D)} : D \in DataTypes}}
    IN good \cup (IF protocol.Postfix_t THEN {Damaged(Frame("B", v)) : v \in ValuesOf("B")}
                  ELSE {})

RECURSIVE Concat(_)
Concat(fs) == IF fs = <<>> THEN <<>> ELSE Head(fs) \o Concat(Tail(fs))

\* One to MaxFrames frames back to back, heard from the first byte or from
\* behind the first frame's prefix.
Streams ==
    LET whole == {Concat(fs) : fs \in UNION {[1..n -> Frames] : n \in 1..MaxFrames}}
    IN whole \cup (IF protocol.Prefix_t
                   THEN {SubSeq(w, Len(PrefixValue) + 1, Len(w)) : w \in whole}
                   ELSE {})

\* The frame a peer sends whose Data has another size than here: the typeId
\* of Data, payload and dataBytes of the other size.
MismatchedFrame(Data) ==
    LET payload == [i \in 1..(IF sizeof[Data] = 1 THEN 2 ELSE 1) |-> 10 + i]
    IN (IF protocol.Prefix_t THEN PrefixValue ELSE <<>>)
       \o HeaderBytes([typeId |-> U32(typeId(Data)), dataBytes |-> U32(Len(payload))])
       \o payload
       \o (IF protocol.Postfix_t THEN PostfixValue ELSE <<>>)

\* One to MaxFrames such frames back to back, heard from the first byte or
\* from behind the first frame's prefix.
MismatchedStreams ==
    LET whole == {Concat(fs) : fs \in UNION {[1..n -> {MismatchedFrame(Data) : Data \in DataTypes}] :
                                                n \in 1..MaxFrames}}
    IN whole \cup (IF protocol.Prefix_t
                   THEN {SubSeq(w, Len(PrefixValue) + 1, Len(w)) : w \in whole}
                   ELSE {})

\* A frame with paddingSize bytes between the payload and the postfix.
MaxPadding == 2
MaxPaddedFrames == 1

PaddedFrame(Data, data, paddingSize) ==
    (IF protocol.Prefix_t THEN PrefixValue ELSE <<>>)
    \o HeaderBytes(Header(Data)) \o data \o [i \in 1..paddingSize |-> 76 + i]
    \o (IF protocol.Postfix_t THEN PostfixValue ELSE <<>>)

\* One to MaxPaddedFrames frames of one padding back to back, heard from the first
\* byte or from behind the first frame's prefix.
PaddedStreams ==
    LET frames(paddingSize) ==
            {PaddedFrame(m.publisher, m.data, paddingSize) :
                m \in UNION {{[publisher |-> Data, data |-> data] : data \in ValuesOf(Data)} :
                                Data \in DataTypes}}
        whole == UNION {{Concat(fs) : fs \in UNION {[1..n -> frames(paddingSize)] :
                                                       n \in 1..MaxPaddedFrames}} :
                           paddingSize \in 1..MaxPadding}
    IN whole \cup (IF protocol.Prefix_t
                   THEN {SubSeq(w, Len(PrefixValue) + 1, Len(w)) : w \in whole}
                   ELSE {})

\* One read() call returns at the latest when it is back in the Header state,
\* which is at most a header, a payload, a postfix and a prefix away: more
\* waiting bytes than that are left in the transport by every call.
MaxAvailable == sizeofHeader + sizeof["B"] + Len(PostfixValue) + Len(PrefixValue)

(***************************************************************************)
(* Broker<Data>: the identity of the type, State::typeId and typeName      *)
(***************************************************************************)
MaxTypeId == 2

\* The string literals a caller can pass, by address; "a" exists twice.
Literals == <<<<97>>, <<97>>, <<98>>>>

strcmp(lhs, rhs) == IF Literals[lhs] = Literals[rhs] THEN 0 ELSE 1

\* utility::hash of the older header: djb2 over the characters. The literals
\* are short enough for the value to stay below 2^31.
RECURSIVE hash(_, _)
hash(h, str) == IF str = <<>> THEN h ELSE hash(((h * 32) + h) + Head(str), Tail(str))

\* state_ of a static Broker<Data>::State is zero-initialised. api 2 is
\* include/sub0pub/sub0pub.hpp with SUB0PUB_TYPEIDNAME, api 1 the older
\* sub0pub.hpp.
NoIdentity(api) ==
    [typeId |-> 0, typeName |-> nullptr, fault |-> "none", api |-> api, op |-> "none",
     arg |-> [typeId |-> 0, typeName |-> nullptr],
     before |-> [typeId |-> 0, typeName |-> nullptr]]

\* Broker::setDataName(typeId, typeName) of include/sub0pub/sub0pub.hpp.
setDataName(state, id, name) ==
    LET idOk == (state.typeId = 0) \/ (state.typeId = id)
        s1 == IF id # 0 THEN [state EXCEPT !.typeId = id] ELSE state
        nameOk == (s1.typeName = nullptr) \/ (strcmp(s1.typeName, name) = 0)
        s2 == IF name # nullptr THEN [s1 EXCEPT !.typeName = name] ELSE s1
    IN IF id # 0 /\ ~idOk /\ ~build.NDEBUG THEN [state EXCEPT !.fault = "abort"]
       ELSE IF name # nullptr /\ ~nameOk /\ ~build.NDEBUG
            THEN [s1 EXCEPT !.fault = "abort"]
            ELSE s2

\* Broker::setDataName(typeName) of the older sub0pub.hpp.
setDataNameHash(state, name) ==
    IF name = nullptr THEN state
    ELSE IF ~((state.typeName = nullptr) \/ (strcmp(state.typeName, name) = 0))
            /\ ~build.NDEBUG
         THEN [state EXCEPT !.fault = "abort"]
         ELSE [state EXCEPT !.typeName = name, !.typeId = hash(5381, Literals[name])]

IdentityCall(state, id, name) ==
    [state EXCEPT !.op = "setDataName", !.arg = [typeId |-> id, typeName |-> name],
                  !.before = [typeId |-> identity.typeId, typeName |-> identity.typeName]]

SetDataName(id, name) ==
    /\ identity.api = 2
    /\ identity.fault = "none"
    /\ identity' = IdentityCall(setDataName(identity, id, name), id, name)
    /\ UNCHANGED <<subscriptions, subscriptionCount, handles, created, lastOp, lastData,
                   lastCalls, publishers, fault, readerVars>>

SetDataNameHash(name) ==
    /\ identity.api = 1
    /\ identity.fault = "none"
    /\ identity' = IdentityCall(setDataNameHash(identity, name), 0, name)
    /\ UNCHANGED <<subscriptions, subscriptionCount, handles, created, lastOp, lastData,
                   lastCalls, publishers, fault, readerVars>>

(***************************************************************************)
(* The type identity of each Data type between a writer and a directory   *)
(***************************************************************************)
\* The typeId every Header is given in a build without SUB0PUB_TYPEIDNAME.
cDefaultTypeId == 12345

\* No handle constructed yet: every Broker<Data>::state_ zero-initialised,
\* nothing registered; the header each type was registered under is kept.
NoNaming ==
    [SUB0PUB_TYPEIDNAME |-> FALSE,
     state_ |-> [Data \in DataTypes |-> NoIdentity(2)],
     registered |-> <<>>,
     fault |-> "none",
     op |-> [ctor |-> "none", Data |-> "nullptr", typeId |-> 0]]

\* DefaultSerialisation::Header::Header(const Data&), now: the typeId is read
\* from Broker<Data>::typeId() when the Header is constructed.
HeaderNow(n, Data) ==
    [typeId |-> U32(IF n.SUB0PUB_TYPEIDNAME THEN n.state_[Data].typeId ELSE cDefaultTypeId),
     dataBytes |-> U32(sizeof[Data])]

\* Broker<Data>::Broker(handle, typeId, typeName) of any handle of Data:
\* setDataName, in a build with SUB0PUB_TYPEIDNAME.
namedBroker(n, Data, id) ==
    IF n.SUB0PUB_TYPEIDNAME
    THEN LET s == setDataName(n.state_[Data], id, nullptr)
         IN [n EXCEPT !.state_[Data] = [s EXCEPT !.fault = "none"], !.fault = s.fault]
    ELSE n

\* Publish<Data>::Publish(typeId) or Subscribe<Data>::Subscribe(typeId); the
\* constructors take no argument in a build without SUB0PUB_TYPEIDNAME.
ConstructHandle(Data, id) ==
    /\ naming.fault = "none"
    /\ naming.SUB0PUB_TYPEIDNAME \/ id = 0
    /\ naming' = [namedBroker(naming, Data, id) EXCEPT
                     !.op = [ctor |-> "Publish", Data |-> Data, typeId |-> id]]
    /\ UNCHANGED <<build, protocol, dataBufferRegistery_, rd, stream, nClose, dirVars,
                   writerVars, deserialiserVars, brokerVars>>

\* ForwardPublish<Data, DataProvider>::ForwardPublish(typeId): the Publish<Data>
\* base, then setDataPublisher(buffer_, *this) -> BufferRegister::set(buffer,
\* publisher), which registers buffer_ under Header_t(buffer). One object of
\* each type, on a reader that has not read yet.
ConstructForwardPublish(Data, id) ==
    /\ naming.fault = "none"
    /\ naming.SUB0PUB_TYPEIDNAME \/ id = 0
    /\ Data \notin DOMAIN naming.registered
    /\ rd.currentBuffer_.buffer = NullPtr
    /\ Len(dataBufferRegistery_) < cMaxDataBufferCount
    /\ LET n == namedBroker(naming, Data, id)
           op == [ctor |-> "ForwardPublish", Data |-> Data, typeId |-> id]
       IN IF n.fault # "none"
          THEN /\ naming' = [n EXCEPT !.op = op]
               /\ UNCHANGED dataBufferRegistery_
          ELSE /\ dataBufferRegistery_' =
                     set(dataBufferRegistery_, HeaderNow(n, Data),
                         Buffer([base |-> Data, off |-> 0], sizeof[Data], 0, Data))
               /\ naming' = [n EXCEPT !.op = op,
                                !.registered = [T \in DOMAIN @ \cup {Data} |->
                                                   IF T = Data THEN HeaderNow(n, Data) ELSE @[T]]]
    /\ UNCHANGED <<build, protocol, rd, stream, nClose, dirVars, writerVars,
                   deserialiserVars, brokerVars>>

(***************************************************************************)
(* sub0pub.hpp (older header): BinaryProtocol, ForwardPublish and          *)
(* StreamDeserialiser                                                      *)
(***************************************************************************)
MaxNamings == 1
MaxOldFrames == 2

\* BinaryProtocol::Header::cMagic
cMagic == FourCC(83, 85, 66, 48)

\* BinaryProtocol::writeHeader and writePayload: the bytes put on the stream
\* for a header of these fields, and for a value.
writeHeader(magic, id, dataBytes) == Enc32(magic) \o Enc32(id) \o Enc32(dataBytes)
writePayload(data) == data
sizeofBinaryHeader == Len(writeHeader(cMagic, 0, 0))

\* The fields of the BinaryProtocol::Header a header_ buffer holds.
BinaryHeader(header) ==
    [magic |-> Dec32(header, 1), typeId |-> Dec32(header, 5), dataBytes |-> Dec32(header, 9)]

\* The value of a uint32_t field known to be below 2^31.
Num(u) == (u[1] * 65536) + u[2]

StreamDeserialiser_cMaxDataBufferCount == 32

\* StreamDeserialiser::StreamDeserialiser(stream), with the zero-initialised
\* Broker<Data>::state_ of each type, the buffer_ of each ForwardPublish
\* object, the std::istream and the outcome of the last call carried along:
\*   in, pos     the bytes the stream will ever carry, how many were extracted
\*   avail       bytes waiting in the stream: those a call finds, less those it extracts
\*   completed   the dataBufferComplete() calls made: whose, the buffer then, pos then
\*   ret         how the last update() call ended: true, false, abort or segv
\*   fault       "abort": an assert() failed; "segv": a call through a null pointer
StreamDeserialiser ==
    [state_ |-> [Data \in DataTypes |-> [typeId |-> 0, typeName |-> nullptr, fault |-> "none"]],
     buffer_ |-> [Data \in DataTypes |-> [i \in 1..sizeof[Data] |-> 0]],
     bufferRegistry_ |-> <<>>,
     readCount_ |-> 0,
     header_ |-> [i \in 1..sizeofBinaryHeader |-> 0],
     currentPayload_ |-> "nullptr",
     in |-> <<>>, pos |-> 0, avail |-> 0,
     completed |-> <<>>, ret |-> "none", fault |-> "none", op |-> "none", namings |-> 0]

\* IDataBuffer::typeId() and bufferBytes() of ForwardPublish<Data, Provider>
IDataBuffer_typeId(d, dataBuffer) == d.state_[dataBuffer].typeId
bufferBytes(dataBuffer) == sizeof[dataBuffer]

\* std::upper_bound and std::lower_bound over [bufferRegistry_, bufferRegistryEnd_)
\* by typeId, as the halving search of the standard library: the index found,
\* Len + 1 for bufferRegistryEnd_.
RECURSIVE bound(_, _, _, _, _)
bound(d, first, len, id, upper) ==
    IF len <= 0 THEN first
    ELSE LET half == len \div 2
             middle == first + half
             element == U32(IDataBuffer_typeId(d, d.bufferRegistry_[middle]))
             goesRight == IF upper THEN ~U32Less(id, element) ELSE U32Less(element, id)
         IN IF goesRight
            THEN bound(d, middle + 1, (len - half) - 1, id, upper)
            ELSE bound(d, first, half, id, upper)

upper_bound(d, id) == bound(d, 1, Len(d.bufferRegistry_), id, TRUE)
typeId_lower_bound(d, id) == bound(d, 1, Len(d.bufferRegistry_), id, FALSE)

\* std::is_sorted over the registry by typeId
is_sorted(d) ==
    \A i \in 1..(Len(d.bufferRegistry_) - 1) :
        ~(IDataBuffer_typeId(d, d.bufferRegistry_[i + 1])
            < IDataBuffer_typeId(d, d.bufferRegistry_[i]))

\* StreamDeserialiser::registerDataBuffer(dataBuffer)
registerDataBuffer(d, dataBuffer) ==
    LET insertionPoint == upper_bound(d, U32(IDataBuffer_typeId(d, dataBuffer)))
        d1 == [d EXCEPT !.bufferRegistry_ =
                  SubSeq(@, 1, insertionPoint - 1) \o <<dataBuffer>>
                  \o SubSeq(@, insertionPoint, Len(@))]
    IN IF ~build.NDEBUG /\ d.currentPayload_ # "nullptr" THEN [d EXCEPT !.fault = "abort"]
       ELSE IF ~(Len(d.bufferRegistry_) < StreamDeserialiser_cMaxDataBufferCount)
            THEN [d EXCEPT !.fault = IF build.NDEBUG THEN "undefined" ELSE "abort"]
            ELSE IF ~build.NDEBUG /\ ~is_sorted(d1) THEN [d1 EXCEPT !.fault = "abort"]
                 ELSE d1

\* StreamDeserialiser::findDataBuffer(typeId): the buffer found, or nullptr.
findDataBuffer(d, id) ==
    LET iFind == typeId_lower_bound(d, id)
    IN IF iFind # Len(d.bufferRegistry_) + 1
          /\ U32(IDataBuffer_typeId(d, d.bufferRegistry_[iFind])) = id
       THEN d.bufferRegistry_[iFind]
       ELSE "nullptr"

\* stream_.read(to + readCount_, size - readCount_).gcount(), added to
\* readCount_: the bytes go to the member named by to (header_, or the
\* buffer_ of currentPayload_).
istreamRead(d, size) ==
    LET n == Min(size - d.readCount_, d.avail)
        bytes == SubSeq(d.in, d.pos + 1, d.pos + n)
        d1 == [d EXCEPT !.pos = @ + n, !.avail = @ - n, !.readCount_ = @ + n]
    IN IF d.currentPayload_ = "nullptr"
       THEN [d1 EXCEPT !.header_ = Poke(@, d.readCount_, bytes)]
       ELSE [d1 EXCEPT !.buffer_[d.currentPayload_] = Poke(@, d.readCount_, bytes)]

\* StreamDeserialiser::resetToIdle()
resetToIdle(d) == [d EXCEPT !.currentPayload_ = "nullptr", !.readCount_ = 0]

\* ForwardPublish::dataBufferComplete(): PublishTo<Data>::publish(buffer_)
dataBufferComplete(d) ==
    [d EXCEPT !.completed = Append(@, [publisher |-> d.currentPayload_,
                                       data |-> d.buffer_[d.currentPayload_],
                                       pos |-> d.pos])]

payloadCompletedKeepsPayload(d) ==
    IF ~build.NDEBUG /\ d.readCount_ # bufferBytes(d.currentPayload_)
    THEN [d EXCEPT !.ret = "abort", !.fault = "abort"]
    ELSE [dataBufferComplete(d) EXCEPT !.ret = "true"]

\* StreamDeserialiser::payloadCompleted()
payloadCompleted(d) ==
    IF ~build.NDEBUG /\ d.readCount_ # bufferBytes(d.currentPayload_)
    THEN [d EXCEPT !.ret = "abort", !.fault = "abort"]
    ELSE [resetToIdle(dataBufferComplete(d)) EXCEPT !.ret = "true"]

\* StreamDeserialiser::readPayload()
readPayload(d) ==
    LET dataBytes == Num(BinaryHeader(d.header_).dataBytes)
        d1 == istreamRead(d, dataBytes)
    IN IF ~build.NDEBUG /\ ~(d.readCount_ < dataBytes)
       THEN [d EXCEPT !.ret = "abort", !.fault = "abort"]
       ELSE IF d.currentPayload_ = "nullptr" THEN [d EXCEPT !.ret = "segv", !.fault = "segv"]
            ELSE IF d1.readCount_ = dataBytes THEN payloadCompleted(d1)
                 ELSE [d1 EXCEPT !.ret = "false"]

\* StreamDeserialiser::headerCompleted()
headerCompleted(d) ==
    LET header == BinaryHeader(d.header_)
        found == findDataBuffer(d, header.typeId)
        d1 == [d EXCEPT !.readCount_ = 0, !.currentPayload_ = found]
    IN IF ~build.NDEBUG /\ header.magic # U32(cMagic)
       THEN [d EXCEPT !.ret = "abort", !.fault = "abort"]
       ELSE IF ~build.NDEBUG /\ (found = "nullptr"
                                   \/ header.dataBytes # U32(bufferBytes(found)))
            THEN [d1 EXCEPT !.ret = "abort", !.fault = "abort"]
            ELSE readPayload(d1)

\* StreamDeserialiser::readHeader()
readHeader(d) ==
    LET d1 == istreamRead(d, sizeofBinaryHeader)
    IN IF ~build.NDEBUG /\ ~(d.readCount_ < sizeofBinaryHeader)
       THEN [d EXCEPT !.ret = "abort", !.fault = "abort"]
       ELSE IF d1.readCount_ = sizeofBinaryHeader THEN headerCompleted(d1)
            ELSE [d1 EXCEPT !.ret = "false"]

\* StreamDeserialiser::update()
StreamDeserialiser_update(d) ==
    IF d.currentPayload_ = "nullptr" THEN readHeader(d) ELSE readPayload(d)

\* ForwardPublish<Data, Provider>::ForwardPublish(typeName), Provider being
\* the deserialiser: PublishTo<Data>(typeName), whose Broker sets the name of
\* the type, then registerDataBuffer(this).
ForwardPublish(Data, typeName) ==
    /\ ds.fault = "none"
    /\ \A i \in DOMAIN ds.bufferRegistry_ : ds.bufferRegistry_[i] # Data
    /\ LET state == setDataNameHash(ds.state_[Data], typeName)
           d1 == [ds EXCEPT !.state_[Data] = state, !.op = "ForwardPublish", !.ret = "none"]
       IN ds' = IF state.fault # "none" THEN [d1 EXCEPT !.fault = state.fault]
                ELSE registerDataBuffer(d1, Data)
    /\ UNCHANGED <<build, protocol, dataBufferRegistery_, rd, stream, nClose, dirVars,
                   writerVars, namingVars, brokerVars>>

\* PublishTo<Data>::PublishTo(typeName) of one more handle of the type:
\* Broker(publisher, typeName) sets the name of the type.
PublishTo(Data, typeName) ==
    /\ ds.fault = "none"
    /\ ds.namings < MaxNamings
    /\ LET state == setDataNameHash(ds.state_[Data], typeName)
       IN ds' = [ds EXCEPT !.state_[Data] = state, !.fault = state.fault,
                           !.op = "PublishTo", !.ret = "none", !.namings = @ + 1]
    /\ UNCHANGED <<build, protocol, dataBufferRegistery_, rd, stream, nClose, dirVars,
                   writerVars, namingVars, brokerVars>>

\* A buffer_ holds bytes beyond its end: a read stored past sizeof(Data).
Overrun(d) == \E Data \in DataTypes : Len(d.buffer_[Data]) > sizeof[Data]

\* StreamDeserialiser::update(), with available bytes waiting in the stream
\* when the call is made. A call that stores past the end of a buffer_ has
\* undefined behaviour: it goes on with the bytes landed behind the buffer,
\* or the store ends the process.
Update(available) ==
    /\ ds.fault = "none"
    /\ available \in ds.avail..(Len(ds.in) - ds.pos)
    /\ LET called == [ds EXCEPT !.avail = available, !.op = "update", !.ret = "none"]
           returned == StreamDeserialiser_update(called)
       IN \/ ds' = returned
          \/ /\ Overrun(returned) /\ ~Overrun(ds)
             /\ ds' = [called EXCEPT !.ret = "segv", !.fault = "segv"]
    /\ UNCHANGED <<build, protocol, dataBufferRegistery_, rd, stream, nClose, dirVars,
                   writerVars, namingVars, brokerVars>>

\* The frame StreamSerialiser::forward puts on the stream for a value of a
\* type named typeName: the frames of a peer whose A is named "a" and whose B
\* is named "b", and of one whose B is named "a"; the streams of one to
\* MaxOldFrames frames.
OldFrame(typeName, data) ==
    writeHeader(cMagic, setDataNameHash([typeId |-> 0, typeName |-> nullptr, fault |-> "none"],
                                        typeName).typeId, Len(data))
    \o writePayload(data)

OldFrames ==
    {OldFrame(1, data) : data \in ValuesOf("A") \cup ValuesOf("B")}
    \cup {OldFrame(3, data) : data \in ValuesOf("B")}

OldStreams == {Concat(fs) : fs \in UNION {[1..n -> OldFrames] : n \in 1..MaxOldFrames}}

(***************************************************************************)
(* Specifications                                                          *)
(***************************************************************************)
InitSubscriptionVars ==
    /\ subscriptions = State.subscriptions
    /\ subscriptionCount = State.subscriptionCount
    /\ handles = <<>>
    /\ created = 0
    /\ lastOp = "none"
    /\ lastData = 0
    /\ lastCalls = <<>>
    /\ publishers = 0
    /\ fault = "none"

InitBrokerVars == InitSubscriptionVars /\ identity = NoIdentity(2)

\* No directory call and no write() call made yet.
NoDirCall == [op |-> "none", header |-> Header("A"), exists |-> FALSE,
              result |-> Buffer(NullPtr, 0, 0, NoPublisher), fault |-> "none"]
NoWrite == [os |-> OStream(0), ret |-> "none", Data |-> "A", data |-> <<>>,
            outBefore |-> 0, callsBefore |-> 0, n |-> 0, forwarded |-> "none"]

InitAside ==
    /\ dirCall = NoDirCall
    /\ dirGiven = <<>>
    /\ nSet = 0
    /\ wr = NoWrite
    /\ ds = StreamDeserialiser
    /\ naming = NoNaming

InitBroker ==
    /\ InitBrokerVars
    /\ build = [cpp_exceptions |-> TRUE, NDEBUG |-> FALSE]
    /\ protocol = [Prefix_t |-> TRUE, Postfix_t |-> TRUE]
    /\ dataBufferRegistery_ = <<>>
    /\ rd = BinaryReader
    /\ stream = <<>>
    /\ nClose = 0
    /\ InitAside

NextBroker ==
    \/ \E kind \in FilterKinds : Subscribe(kind)
    \/ \E this \in 1..MaxHandles : DestroySubscribe(this)
    \/ \E data \in 0..MaxData : Publish(data)

SpecBroker == InitBroker /\ [][NextBroker]_vars

\* Broker<Data> with subscribers whose receive() destroys a Subscribe<Data>
\* object of the same type.
NextReentrant ==
    \/ NextBroker
    \/ \E data \in 0..MaxData : \E by, victim \in 1..MaxHandles :
          PublishUnsubscribing(data, by, victim)

SpecReentrant == InitBroker /\ [][NextReentrant]_vars

\* Broker<Data> under every use its public interface allows, in a build with
\* and in a build without assert().
InitTable ==
    /\ InitBrokerVars
    /\ build \in [cpp_exceptions : {TRUE}, NDEBUG : BOOLEAN]
    /\ protocol = [Prefix_t |-> TRUE, Postfix_t |-> TRUE]
    /\ dataBufferRegistery_ = <<>>
    /\ rd = BinaryReader
    /\ stream = <<>>
    /\ nClose = 0
    /\ InitAside

NextTable ==
    \/ Subscribe("default")
    \/ \E other \in 1..MaxHandles : CopySubscribe(other)
    \/ \E subscriber \in 0..MaxHandles : Register(subscriber)
    \/ \E this \in 1..MaxHandles : DestroySubscribe(this)
    \/ \E data \in 0..MaxData : Publish(data)
    \/ CreatePublish
    \/ DestroyPublish

SpecTable == InitTable /\ [][NextTable]_vars

\* The identity of Broker<Data> under either header, in a build with and in
\* a build without assert().
InitIdentity ==
    /\ InitSubscriptionVars
    /\ identity \in {NoIdentity(api) : api \in 1..2}
    /\ build \in [cpp_exceptions : {TRUE}, NDEBUG : BOOLEAN]
    /\ protocol = [Prefix_t |-> TRUE, Postfix_t |-> TRUE]
    /\ dataBufferRegistery_ = <<>>
    /\ rd = BinaryReader
    /\ stream = <<>>
    /\ nClose = 0
    /\ InitAside

NextIdentity ==
    \/ \E id \in 0..MaxTypeId : \E name \in 0..Len(Literals) : SetDataName(id, name)
    \/ \E name \in 0..Len(Literals) : SetDataNameHash(name)

SpecIdentity == InitIdentity /\ [][NextIdentity]_vars

\* Broker<Data> filled to its capacity by Subscribe<Data> objects of
\* automatic storage: the object destroyed is the newest one alive.
MaxSubscribers == cMaxSubscriptions + 1

NextCapacity ==
    \/ created < MaxSubscribers /\ SubscribeCtor("default")
    \/ \E this \in 1..MaxSubscribers :
          (\A s \in DOMAIN handles : s <= this) /\ DestroySubscribe(this)
    \/ \E data \in 0..MaxData : Publish(data)

SpecCapacity == InitTable /\ [][NextCapacity]_vars

\* The protocols a BinaryReader can be instantiated for: getStateStatus
\* compares postfix_ == Postfix_t(), which does not compile for void, so a
\* reader that is read from has a postfix type; the prefix may be void.
ReaderProtocols == [Prefix_t : BOOLEAN, Postfix_t : {TRUE}]

InitReader ==
    /\ InitBrokerVars
    /\ build \in [cpp_exceptions : BOOLEAN, NDEBUG : BOOLEAN]
    /\ protocol \in ReaderProtocols
    /\ dataBufferRegistery_ = <<>>
    /\ rd = BinaryReader
    /\ stream \in Streams
    /\ nClose = 0
    /\ InitAside

NextReader ==
    \/ \E Data \in DataTypes : SetDataPublisher(Data)
    \/ \E available \in 0..MaxAvailable : Poll(available)

SpecReader == InitReader /\ [][NextReader]_vars

\* The reader polled with some bytes waiting or with all the rest of the
\* stream waiting.
NextBurst ==
    \/ \E Data \in DataTypes : SetDataPublisher(Data)
    \/ \E available \in 0..MaxAvailable : Poll(available)
    \/ PollBurst

SpecBurst == InitReader /\ [][NextBurst]_vars

\* The reader on a stream of frames whose payload size is not the size
\* registered for their typeId.
InitMismatch ==
    /\ InitBrokerVars
    /\ build \in [cpp_exceptions : BOOLEAN, NDEBUG : BOOLEAN]
    /\ protocol \in ReaderProtocols
    /\ dataBufferRegistery_ = <<>>
    /\ rd = BinaryReader
    /\ stream \in MismatchedStreams
    /\ nClose = 0
    /\ InitAside

SpecMismatch == InitMismatch /\ [][NextReader]_vars

\* The reader with landing buffers registered with padding, each type once,
\* on a stream of padded frames, in a build with assert().
InitPadding ==
    /\ InitBrokerVars
    /\ build \in [cpp_exceptions : BOOLEAN, NDEBUG : {FALSE}]
    /\ protocol \in ReaderProtocols
    /\ dataBufferRegistery_ = <<>>
    /\ rd = BinaryReader
    /\ stream \in PaddedStreams
    /\ nClose = 0
    /\ InitAside

NextPadding ==
    \/ \E Data \in DataTypes : \E paddingSize \in 1..MaxPadding :
          /\ find(dataBufferRegistery_, Header(Data)).buffer = NullPtr
          /\ SetDataPublisherPadded(Data, paddingSize)
    \/ \E available \in 0..(MaxAvailable + MaxPadding) : Poll(available)

SpecPadding == InitPadding /\ [][NextPadding]_vars

\* The reader with close(): landing buffers registered at any moment, polls
\* and close() calls, on a stream of one frame heard from the first byte or
\* from behind its prefix.
InitClose ==
    /\ InitBrokerVars
    /\ build \in [cpp_exceptions : BOOLEAN, NDEBUG : BOOLEAN]
    /\ protocol \in ReaderProtocols
    /\ dataBufferRegistery_ = <<>>
    /\ rd = BinaryReader
    /\ stream \in LET whole == {Frame(Data, data) : <<Data, data>> \in
                                   UNION {{<<D, v>> : v \in ValuesOf(D)} : D \in DataTypes}}
                   IN whole \cup (IF protocol.Prefix_t
                                  THEN {SubSeq(w, Len(PrefixValue) + 1, Len(w)) : w \in whole}
                                  ELSE {})
    /\ nClose = 0
    /\ InitAside

NextClose ==
    \/ \E Data \in DataTypes : SetDataPublisher(Data)
    \/ \E available \in 0..MaxAvailable : Poll(available)
    \/ Close

SpecClose == InitClose /\ [][NextClose]_vars

\* A BufferRegister that is empty, or one entry short of its capacity, in a
\* build with and in a build without assert().
InitDirectory ==
    /\ InitBrokerVars
    /\ build \in [cpp_exceptions : {TRUE}, NDEBUG : BOOLEAN]
    /\ protocol = [Prefix_t |-> TRUE, Postfix_t |-> TRUE]
    /\ dataBufferRegistery_ \in {<<>>, Filled(cMaxDataBufferCount - 1)}
    /\ rd = BinaryReader
    /\ stream = <<>>
    /\ nClose = 0
    /\ dirCall = NoDirCall
    /\ dirGiven = GivenOf(dataBufferRegistery_)
    /\ nSet = 0
    /\ wr = NoWrite
    /\ ds = StreamDeserialiser
    /\ naming = NoNaming

NextDirectory ==
    \/ \E header \in DirHeaders : \E buffer \in DirBuffers : Set(header, buffer)
    \/ \E header \in DirHeaders : Find(header)

SpecDirectory == InitDirectory /\ [][NextDirectory]_vars

\* A BinaryWriter of each protocol on a stream that takes room bytes.
InitWriter ==
    /\ InitBrokerVars
    /\ build = [cpp_exceptions |-> TRUE, NDEBUG |-> FALSE]
    /\ protocol \in [Prefix_t : BOOLEAN, Postfix_t : BOOLEAN]
    /\ dataBufferRegistery_ = <<>>
    /\ rd = BinaryReader
    /\ stream = <<>>
    /\ nClose = 0
    /\ dirCall = NoDirCall
    /\ dirGiven = <<>>
    /\ nSet = 0
    /\ wr \in {[NoWrite EXCEPT !.os = OStream(room)] : room \in 0..MaxRoom}
    /\ ds = StreamDeserialiser
    /\ naming = NoNaming

NextWriter ==
    \/ \E Data \in DataTypes : \E data \in ValuesOf(Data) : Write(Data, data)
    \/ \E Data \in DataTypes : \E data \in ValuesOf(Data) : Forward(Data, data)
    \/ \E more \in 1..MaxRoom : MakeRoom(more)

SpecWriter == InitWriter /\ [][NextWriter]_vars

\* A StreamDeserialiser of the older header: ForwardPublish objects
\* constructed at any moment under the name "a" or "b", update() calls on a
\* stream of frames in arbitrary chunks, in a build with and in a build
\* without assert().
MaxOldAvailable == (sizeofBinaryHeader + sizeof["A"]) + (sizeofBinaryHeader + sizeof["B"])

InitDeserialiser ==
    /\ InitBrokerVars
    /\ build \in [cpp_exceptions : {TRUE}, NDEBUG : BOOLEAN]
    /\ protocol = [Prefix_t |-> TRUE, Postfix_t |-> TRUE]
    /\ dataBufferRegistery_ = <<>>
    /\ rd = BinaryReader
    /\ stream = <<>>
    /\ nClose = 0
    /\ dirCall = NoDirCall
    /\ dirGiven = <<>>
    /\ nSet = 0
    /\ wr = NoWrite
    /\ ds \in {[StreamDeserialiser EXCEPT !.in = s] : s \in OldStreams}
    /\ naming = NoNaming

NextDeserialiser ==
    \/ \E Data \in DataTypes : \E typeName \in {1, Len(Literals)} : ForwardPublish(Data, typeName)
    \/ \E available \in 0..MaxOldAvailable : Update(available)

SpecDeserialiser == InitDeserialiser /\ [][NextDeserialiser]_vars

\* The registry of a StreamDeserialiser: ForwardPublish objects constructed
\* and further handles of their types constructed with a name, in any
\* order, then update() calls on a stream of one frame.
InitRegistry ==
    /\ InitBrokerVars
    /\ build \in [cpp_exceptions : {TRUE}, NDEBUG : BOOLEAN]
    /\ protocol = [Prefix_t |-> TRUE, Postfix_t |-> TRUE]
    /\ dataBufferRegistery_ = <<>>
    /\ rd = BinaryReader
    /\ stream = <<>>
    /\ nClose = 0
    /\ dirCall = NoDirCall
    /\ dirGiven = <<>>
    /\ nSet = 0
    /\ wr = NoWrite
    /\ ds \in {[StreamDeserialiser EXCEPT !.in = s] : s \in OldFrames}
    /\ naming = NoNaming

NextRegistry ==
    \/ \E Data \in DataTypes : \E typeName \in 0..Len(Literals) : ForwardPublish(Data, typeName)
    \/ \E Data \in DataTypes : \E typeName \in 0..Len(Literals) : PublishTo(Data, typeName)
    \/ Update(Len(ds.in) - ds.pos)

SpecRegistry == InitRegistry /\ [][NextRegistry]_vars

\* An application that constructs its handles in any order with any typeId
\* argument, in a build with and in a build without SUB0PUB_TYPEIDNAME.
InitNaming ==
    /\ InitBrokerVars
    /\ build \in [cpp_exceptions : {TRUE}, NDEBUG : BOOLEAN]
    /\ protocol = [Prefix_t |-> TRUE, Postfix_t |-> TRUE]
    /\ dataBufferRegistery_ = <<>>
    /\ rd = BinaryReader
    /\ stream = <<>>
    /\ nClose = 0
    /\ dirCall = NoDirCall
    /\ dirGiven = <<>>
    /\ nSet = 0
    /\ wr = NoWrite
    /\ ds = StreamDeserialiser
    /\ naming \in {[NoNaming EXCEPT !.SUB0PUB_TYPEIDNAME = b] : b \in BOOLEAN}

NextNaming ==
    \/ \E Data \in DataTypes : \E id \in 0..MaxTypeId : ConstructHandle(Data, id)
    \/ \E Data \in DataTypes : \E id \in 0..MaxTypeId : ConstructForwardPublish(Data, id)

SpecNaming == InitNaming /\ [][NextNaming]_vars

Spec == SpecReader

(***************************************************************************)
(* Properties of Broker<Data>, checked under SpecBroker                    *)
(***************************************************************************)
\* Serials are handed out in construction order, so the live subscribers in
\* registration order are the live serials in increasing order.
RECURSIVE ExpectedCalls(_, _, _)
ExpectedCalls(hs, data, s) ==
    IF s > created THEN <<>>
    ELSE IF s \notin DOMAIN hs THEN ExpectedCalls(hs, data, s + 1)
    ELSE LET f == <<[call |-> "filter", subscriber |-> s, data |-> data]>>
         IN (IF filter(hs[s], data)
             THEN f \o <<[call |-> "receive", subscriber |-> s, data |-> data]>>
             ELSE f) \o ExpectedCalls(hs, data, s + 1)

\* C1: one publish of v evaluates filter(v) on every registered subscriber,
\* in registration order, and calls receive(v) exactly once on each one whose
\* filter accepts v and never on one whose filter rejects it.
C1_FanOut ==
    lastOp = "publish" => lastCalls = ExpectedCalls(handles, lastData, 1)

\* A publish that reached an accepting and a rejecting subscriber after an
\* earlier subscriber had been destroyed.
C1_Witness ==
    /\ lastOp = "publish"
    /\ Cardinality(DOMAIN handles) = 2
    /\ created = 3
    /\ \E a, b \in DOMAIN handles : filter(handles[a], lastData) /\ ~filter(handles[b], lastData)

\* C10: once a Subscribe<Data> object has been destroyed no publish calls its
\* filter or its receive, whatever was registered, destroyed or published since.
C10_NoCallAfterUnsubscribe ==
    \A i \in DOMAIN lastCalls :
        lastCalls[i].subscriber \notin (1..created) \ DOMAIN handles

\* A publish that made calls while the first subscriber of three was gone.
C10_Witness ==
    /\ lastOp = "publish"
    /\ lastCalls # <<>>
    /\ created = 3
    /\ 1 \notin DOMAIN handles

(***************************************************************************)
(* Properties of the subscriber table, checked under SpecTable and         *)
(* SpecCapacity                                                            *)
(***************************************************************************)
Occurrences(tab, count, s) == Cardinality({i \in 0..(count - 1) : tab[i] = s})

Without(seq, s) == SelectSeq(seq, LAMBDA x : x # s)

Range(seq) == {seq[i] : i \in DOMAIN seq}

\* The subscribers a publish has visited, in the order of their filter calls.
Visited(calls) ==
    LET fs == SelectSeq(calls, LAMBDA c : c.call = "filter")
    IN [i \in 1..Len(fs) |-> fs[i].subscriber]

\* C29, checked under SpecBroker: whatever registrations and unregistrations came before, publish
\* visits the subscribers registered at that moment, each once, in the order
\* they were registered in (the order of their construction); unregistering
\* one subscriber leaves the others in the table in the order they were in.
C29_OrderUnderChurn ==
    [][/\ \A data \in 0..MaxData :
             Publish(data)
             => LET v == Visited(lastCalls')
                IN /\ Range(v) = DOMAIN handles
                   /\ \A i, j \in DOMAIN v : i < j => v[i] < v[j]
       /\ \A this \in 1..MaxHandles :
             DestroySubscribe(this)
             => TableSeq(subscriptions', subscriptionCount') =
                   Without(TableSeq(subscriptions, subscriptionCount), this)]_vars

\* A publish has visited the first and the third subscriber constructed, the
\* second one being gone.
C29_Witness ==
    /\ lastOp = "publish"
    /\ DOMAIN handles = {1, 3}
    /\ Visited(lastCalls) = <<1, 3>>

\* The index of a subscriber in the table, the visits (filter calls) a
\* publish has paid it, and the calls made after the receive() of by.
IndexOf(tab, count, s) == CHOOSE i \in 0..(count - 1) : tab[i] = s
Visits(calls, s) ==
    Cardinality({i \in DOMAIN calls : calls[i].call = "filter" /\ calls[i].subscriber = s})
CallsAfterReceive(calls, by) ==
    LET at == CHOOSE i \in DOMAIN calls : calls[i].call = "receive" /\ calls[i].subscriber = by
    IN SubSeq(calls, at + 1, Len(calls))

\* C38: when the receive() of a subscriber destroys a Subscribe<Data> object
\* while publish(v) iterates, every subscriber still registered is visited
\* exactly once in that publish, and the destroyed one is not called after
\* its destruction.
C38_ReentrantUnsubscribe ==
    [][\A data \in 0..MaxData : \A by, victim \in 1..MaxHandles :
          (PublishUnsubscribing(data, by, victim) /\ accepts(handles, by, data))
          => /\ \A s \in DOMAIN handles \ {victim} : Visits(lastCalls', s) = 1
             /\ \A i \in DOMAIN CallsAfterReceive(lastCalls', by) :
                   CallsAfterReceive(lastCalls', by)[i].subscriber # victim]_vars

\* C38 as it holds: the destroyed subscriber is not called after its
\* destruction, nobody is visited twice, and the table then holds the others
\* in their order; every other subscriber is visited exactly once, except
\* that when the destroyed one stands at or before the calling one in the
\* table, the subscriber that followed the calling one is not visited.
C38_UnsubscribeSkipsNext ==
    [][\A data \in 0..MaxData : \A by, victim \in 1..MaxHandles :
          (PublishUnsubscribing(data, by, victim) /\ accepts(handles, by, data))
          => LET at == IndexOf(subscriptions, subscriptionCount, by)
                 skipped == IF IndexOf(subscriptions, subscriptionCount, victim) <= at
                               /\ at + 1 < subscriptionCount
                            THEN {subscriptions[at + 1]} ELSE {}
             IN /\ \A s \in DOMAIN handles \ {victim} :
                      Visits(lastCalls', s) = IF s \in skipped THEN 0 ELSE 1
                /\ Visits(lastCalls', victim) <= 1
                /\ \A i \in DOMAIN CallsAfterReceive(lastCalls', by) :
                      CallsAfterReceive(lastCalls', by)[i].subscriber # victim
                /\ TableSeq(subscriptions', subscriptionCount')
                      = Without(TableSeq(subscriptions, subscriptionCount), victim)
                /\ DOMAIN handles' = DOMAIN handles \ {victim}]_vars

\* A publish in which the first of three subscribers destroyed itself: the
\* second was skipped and the third visited.
C38_Witness ==
    /\ lastOp = "publish"
    /\ created = 3
    /\ subscriptionCount = 2
    /\ Visits(lastCalls, 1) = 1 /\ 1 \notin DOMAIN handles
    /\ Visits(lastCalls, 2) = 0 /\ 2 \in DOMAIN handles
    /\ Visits(lastCalls, 3) = 1

\* C11: unsubscribe(s) removes the one table entry equal to s and decrements
\* the count; when s is not in the table or is in it more than once the call
\* ends in a failed assertion, and no other subscriber leaves the table.
C11_Unsubscribe ==
    [][\A this \in 1..MaxHandles :
          (DestroySubscribe(this) /\ InTable(subscriptionCount))
          => LET before == TableSeq(subscriptions, subscriptionCount)
                 after == TableSeq(subscriptions', subscriptionCount')
             IN IF Occurrences(subscriptions, subscriptionCount, this) = 1
                THEN /\ fault' = "none"
                     /\ subscriptionCount' = subscriptionCount - 1
                     /\ after = Without(before, this)
                ELSE /\ fault' = "abort"
                     /\ Range(before) \ {this} \subseteq Range(after)]_vars

\* C12: with cMaxSubscriptions subscribers in the table a further
\* registration fails and leaves the table entries and the count as they were.
C12_Capacity ==
    [][(SubscribeCtor("default") /\ subscriptionCount = cMaxSubscriptions)
       => /\ fault' = "abort"
          /\ subscriptions' = subscriptions
          /\ subscriptionCount' = subscriptionCount]_vars

\* C13: after any sequence of register, unregister and publish operations,
\* failing ones included, subscriptionCount is within 0..cMaxSubscriptions
\* and no pointer occurs twice among the first subscriptionCount slots.
C13_TableInvariant ==
    fault # "abort"
    => /\ InTable(subscriptionCount)
       /\ \A i, j \in 0..(subscriptionCount - 1) :
             i # j => subscriptions[i] # subscriptions[j]

\* The table holds the Subscribe<Data> objects alive, each once.
TableIsHandles ==
    /\ InTable(subscriptionCount)
    /\ subscriptionCount = Cardinality(DOMAIN handles)
    /\ Range(TableSeq(subscriptions, subscriptionCount)) = DOMAIN handles

\* C14: between operations the table holds exactly the Subscribe<Data>
\* objects created and not yet destroyed, each once; creating or destroying a
\* Publish<Data> object leaves the table as it is.
C14_HandleLifecycle ==
    [][/\ (fault' = "none" /\ Surplus(subscriptions', subscriptionCount') = 0)
          => TableIsHandles'
       /\ (CreatePublish \/ DestroyPublish)
          => UNCHANGED <<subscriptions, subscriptionCount>>]_vars

(***************************************************************************)
(* Properties of BufferRegister, checked under SpecDirectory               *)
(***************************************************************************)
DistinctTypeIds(registry) ==
    \A i, j \in DOMAIN registry :
        i # j => registry[i].first.typeId # registry[j].first.typeId

Present(registry, header) ==
    \E i \in DOMAIN registry : HeaderEq(registry[i].first, header)

\* C15: in a directory whose entries have pairwise distinct typeIds, whatever
\* the order they were inserted in, find(h) returns the descriptor given for
\* h by the most recent set(h, .), the null descriptor for a header never
\* given to set, and leaves the directory as it is.
C15_DirectoryLookup ==
    [][\A header \in DirHeaders :
          (/\ Find(header)
           /\ DistinctTypeIds(dataBufferRegistery_)
           /\ Len(dataBufferRegistery_) <= cMaxDataBufferCount)
          => /\ dirCall'.result = IF header \in DOMAIN dirGiven THEN dirGiven[header]
                                  ELSE Buffer(NullPtr, 0, 0, NoPublisher)
             /\ dataBufferRegistery_' = dataBufferRegistery_]_vars

\* find() has returned the descriptor of the middle one of three entries.
C15_Witness ==
    /\ dirCall.op = "find"
    /\ Len(dataBufferRegistery_) = 3
    /\ DistinctTypeIds(dataBufferRegistery_)
    /\ dirCall.header = dataBufferRegistery_[2].first
    /\ dirCall.result = dataBufferRegistery_[2].second
    /\ dirCall.result # dataBufferRegistery_[1].second
    /\ dirCall.result.buffer # NullPtr

\* C16: set(h, d) with h equal in typeId and dataBytes to the header of an
\* entry replaces the descriptor of that entry and leaves the number of
\* entries, their order and every other entry as they were.
C16_Upsert ==
    [][\A header \in DirHeaders : \A buffer \in DirBuffers :
          (/\ Set(header, buffer)
           /\ dirCall'.fault = "none"
           /\ Present(dataBufferRegistery_, header))
          => /\ Len(dataBufferRegistery_') = Len(dataBufferRegistery_)
             /\ \A i \in DOMAIN dataBufferRegistery_ :
                   /\ dataBufferRegistery_'[i].first = dataBufferRegistery_[i].first
                   /\ dataBufferRegistery_'[i].second =
                         IF HeaderEq(dataBufferRegistery_[i].first, header) THEN buffer
                         ELSE dataBufferRegistery_[i].second]_vars

\* C17: set fails exactly when the header is not present and the directory
\* holds cMaxDataBufferCount entries; a failing set leaves the entries as
\* they were; the number of entries never exceeds the capacity.
C17_DirectoryCapacity ==
    [][\A header \in DirHeaders : \A buffer \in DirBuffers :
          Set(header, buffer)
          => LET fails == dirCall'.fault = "abort"
             IN /\ fails <=> (/\ ~Present(dataBufferRegistery_, header)
                              /\ Len(dataBufferRegistery_) >= cMaxDataBufferCount)
                /\ fails => dataBufferRegistery_' = dataBufferRegistery_
                /\ Len(dataBufferRegistery_') <= cMaxDataBufferCount]_vars

\* C33: after set calls within capacity, find(h) returns for every header h
\* passed to set the buffer of the most recent set(h, .), also when several
\* headers of the registry share a typeId and differ in dataBytes.
C33_FindMostRecent ==
    dirCall.fault = "none" =>
        \A header \in DOMAIN dirGiven :
            find(dataBufferRegistery_, header) = dirGiven[header]

\* C27: after every set call within capacity the entries lie in
\* non-decreasing typeId order and no two of them have equal headers; a call
\* that inserts a new header leaves the entries that were there as they were,
\* in the order they were in.
C27_DirectoryOrder ==
    [][\A header \in DirHeaders : \A buffer \in DirBuffers :
          (Set(header, buffer) /\ dirCall'.fault = "none")
          => LET after == dataBufferRegistery_'
             IN /\ \A i, j \in DOMAIN after :
                      i < j => /\ ~HeaderLess(after[j].first, after[i].first)
                               /\ ~HeaderEq(after[i].first, after[j].first)
                /\ ~Present(dataBufferRegistery_, header)
                   => \E k \in DOMAIN after :
                         /\ after[k] = [first |-> header, second |-> buffer]
                         /\ dataBufferRegistery_ =
                               SubSeq(after, 1, k - 1) \o SubSeq(after, k + 1, Len(after))]_vars

(***************************************************************************)
(* Properties of BinaryWriter, checked under SpecWriter                    *)
(***************************************************************************)
\* The parts of the frame of a value, in wire order.
Parts(Data, data) ==
    (IF protocol.Prefix_t THEN <<PrefixValue>> ELSE <<>>)
    \o <<Enc32(typeId(Data)) \o Enc32(sizeof[Data]), data>>
    \o (IF protocol.Postfix_t THEN <<PostfixValue>> ELSE <<>>)

\* The OStream::write calls the last write() call made, and the bytes it
\* has put on the stream.
Issued == SubSeq(wr.os.calls, wr.callsBefore + 1, Len(wr.os.calls))
Put == SubSeq(wr.os.out, wr.outBefore + 1, Len(wr.os.out))

\* C18: write() hands the transport the prefix, the header (the type's
\* identifier, then sizeof(data)), the payload and the postfix, in this order
\* and nothing else; a void prefix or postfix is left out.
C18_WireOrder ==
    wr.ret # "none"
    => LET parts == Parts(wr.Data, wr.data)
       IN /\ Len(Issued) <= Len(parts)
          /\ \A i \in DOMAIN Issued : Issued[i].buffer = parts[i]
          /\ wr.ret = "true" => /\ Len(Issued) = Len(parts)
                              /\ Put = Concat(parts)

\* A second frame written in full behind a first one, with prefix and postfix.
C18_Witness ==
    /\ wr.ret = "true"
    /\ wr.outBefore > 0
    /\ protocol.Prefix_t /\ protocol.Postfix_t
    /\ Len(Issued) = 4
    /\ wr.Data = "B"

\* C19: a write() call in which a transport write is short leaves no partial
\* frame on the stream: what the call has put there is a whole frame or nothing.
C19_FrameAtomicity ==
    wr.ret = "false" => Put = <<>> \/ Put = Concat(Parts(wr.Data, wr.data))

\* C20: write() returns true exactly when every part was handed to the
\* transport and the transport took each in full; behind the first short
\* transport write no further part is written.
C20_WriteResult ==
    wr.ret # "none"
    => LET parts == Parts(wr.Data, wr.data)
           full(i) == Issued[i].written = Len(Issued[i].buffer)
       IN /\ wr.ret = "true" <=> (Len(Issued) = Len(parts) /\ \A i \in DOMAIN Issued : full(i))
          /\ \A i \in DOMAIN Issued : i < Len(Issued) => full(i)
          /\ wr.ret = "false" => ~full(Len(Issued))

\* A write() call that failed in its third transport write.
C20_Witness ==
    /\ wr.ret = "false"
    /\ Len(Issued) = 3
    /\ Issued[3].written > 0
    /\ Issued[3].written < Len(Issued[3].buffer)

\* C21: a transport write that fails while StreamSerializer::forward
\* serialises a received message reaches the caller of forward as an error
\* result; it is not swallowed.
C21_ForwardSurfacesFailure ==
    (wr.forwarded # "none" /\ wr.ret = "false") => wr.forwarded = "error"

SameName(lhs, rhs) ==
    IF lhs = nullptr \/ rhs = nullptr THEN lhs = rhs ELSE Literals[lhs] = Literals[rhs]

\* C22: setDataName with typeId 0 leaves the stored id as it was and with a
\* null name leaves the stored name as it was; the first non-zero id
\* (non-null name) is stored; once stored, the id (name) never changes: an
\* equal value is accepted and a different non-zero id or non-null name ends
\* in an assertion failure.
C22_TypeIdentity ==
    identity.op = "setDataName" =>
        LET b == identity.before
            a == identity.arg
            differs == \/ identity.api = 2 /\ a.typeId # 0 /\ b.typeId # 0
                          /\ a.typeId # b.typeId
                       \/ a.typeName # nullptr /\ b.typeName # nullptr
                          /\ ~SameName(a.typeName, b.typeName)
        IN /\ (identity.api = 2 /\ a.typeId = 0) => identity.typeId = b.typeId
           /\ a.typeName = nullptr => identity.typeName = b.typeName
           /\ (identity.api = 2 /\ a.typeId # 0 /\ b.typeId = 0 /\ ~differs)
                 => identity.typeId = a.typeId
           /\ (a.typeName # nullptr /\ b.typeName = nullptr /\ ~differs)
                 => identity.typeName = a.typeName
           /\ b.typeId # 0 => identity.typeId = b.typeId
           /\ b.typeName # nullptr => SameName(identity.typeName, b.typeName)
           /\ differs <=> identity.fault = "abort"

(***************************************************************************)
(* Properties of BinaryReader, checked under SpecReader                    *)
(***************************************************************************)
Registered(Data) == find(dataBufferRegistery_, Header(Data)).buffer # NullPtr

PostfixSize == IF protocol.Postfix_t THEN Len(PostfixValue) ELSE 0

\* What a caller and the next read() call can see of the reader.
View(r) == [state_ |-> r.state_, currentBuffer_ |-> r.currentBuffer_,
            published |-> r.published, pos |-> r.pos, mem |-> r.mem]

\* A caller that polls until read() no longer returns true, with the stream
\* bytes [1, upto] in the transport from the start.
RECURSIVE Drain(_, _)
Drain(r, upto) ==
    LET r1 == update(r, upto - r.pos)
    IN IF r1.ret = "true" THEN Drain(r1, upto) ELSE r1

\* C2: the bytes the writer produces for a value of a registered type, fed to
\* a freshly constructed reader in any chunking, raise no framing error and
\* give exactly one completion callback, with the landing buffer equal to the
\* value; for the default protocol and for protocols without prefix or postfix.
C2_RoundTrip ==
    \A Data \in DataTypes : \A data \in ValuesOf(Data) :
        (stream = Frame(Data, data) /\ Registered(Data) /\ ~rd.registeredLate)
        => /\ ~rd.faulted
           /\ rd.ret \notin {"throw", "abort"}
           /\ Len(rd.published) <= 1
           /\ rd.pos = Len(stream)
              => /\ Len(rd.published) = 1
                 /\ rd.published[1].publisher = Data
                 /\ rd.published[1].data = data

\* The messages a writer can send, and the stream that carries a sequence of
\* them back to back.
Messages == UNION {{[publisher |-> Data, data |-> data] : data \in ValuesOf(Data)} :
                      Data \in DataTypes}
Wire(ms) == Concat([i \in 1..Len(ms) |-> Frame(ms[i].publisher, ms[i].data)])

\* The completion callbacks made so far: whose publish(), with which payload.
Delivered == [i \in 1..Len(rd.published) |->
                 [publisher |-> rd.published[i].publisher, data |-> rd.published[i].data]]

\* C23: when the stream is the valid frames f1..fn of registered types, the
\* completion callbacks come in the order f1..fn, one per frame and each with
\* the payload of its own frame, however the bytes are spread over polls: at
\* any moment the callbacks made are the first frames of the stream, and all
\* of them once the stream has been consumed.
C23_DeliveryInWireOrder ==
    \A ms \in UNION {[1..n -> Messages] : n \in 1..MaxFrames} :
        (stream = Wire(ms) /\ ~rd.registeredLate
         /\ \A i \in 1..Len(ms) : Registered(ms[i].publisher))
        => /\ Len(rd.published) <= Len(ms)
           /\ Delivered = SubSeq(ms, 1, Len(rd.published))
           /\ rd.pos = Len(stream) => Delivered = ms

\* The storage a descriptor of the reader can point into.
Storage(r, base) ==
    CASE base = "prefix_"  -> r.prefix_
      [] base = "header_"  -> r.header_
      [] base = "postfix_" -> r.postfix_
      [] base \in DataTypes -> r.mem[base]
      [] OTHER -> <<>>

FrameJustCompleted ==
    /\ rd.published # <<>>
    /\ rd.published[Len(rd.published)].pos = rd.pos
    /\ rd.ret \in {"true", "false"}
    /\ ~rd.faulted
    /\ rd.state_ # "SyncLost"

\* A reader constructed now on the same transport, with the same landing
\* buffers and the same record of callbacks.
FreshReader == [BinaryReader EXCEPT !.pos = rd.pos, !.mem = rd.mem,
                                   !.published = rd.published, !.headerAt = rd.headerAt]

\* C25: after a frame has completed the reader is in the state of a freshly
\* constructed reader: the rest of the stream is parsed from there exactly as
\* a fresh reader parses it, with the same callbacks, the same result and the
\* same bytes consumed.
C25_ResetAfterFrame ==
    FrameJustCompleted
    => LET continued == Drain(rd, Len(stream))
           fresh == Drain(FreshReader, Len(stream))
       IN /\ continued.published = fresh.published
          /\ continued.ret = fresh.ret
          /\ continued.pos = fresh.pos

\* The header the reader holds has the typeId of a registered type and
\* another dataBytes than registered for it.
SizeMismatch(header) ==
    \E Data \in DataTypes : /\ Registered(Data)
                             /\ header.typeId = Header(Data).typeId
                             /\ header.dataBytes # Header(Data).dataBytes

\* C26: a frame whose typeId is registered and whose dataBytes differs from
\* the registered size is treated as unrecognised: when its header has been
\* completed the lookup has given the null descriptor and the read() call
\* has reported a framing error; no byte of the frame reaches a landing
\* buffer and no completion callback is made.
C26_SizeMismatch ==
    /\ (rd.state_ = "Data" /\ rd.pos - sizeofHeader \in rd.headerAt
        /\ SizeMismatch(HeaderOf(rd.header_)))
       => /\ rd.currentBuffer_.buffer = NullPtr
          /\ rd.ret \in {"throw", "abort"}
    /\ ~rd.registeredLate
       => /\ rd.published = <<>>
          /\ rd.mem = BinaryReader.mem

\* C28: a poll made with a descriptor of paddingSize p > 0 active, with b
\* bytes of it still to store: once the b bytes are stored the next p stream
\* bytes are discarded and stored nowhere; a poll that ends with padding
\* outstanding returns false, leaves the state enum as it was, makes no
\* callback and keeps count of the padding still to discard; the state is
\* completed by the poll that discards the last padding byte, and the byte
\* behind the padding is the first the next descriptor gets.
C28_Padding ==
    [][\A available \in 0..(MaxAvailable + MaxPadding) :
          (rd.currentBuffer_.paddingSize > 0 /\ Poll(available))
          => LET b == rd.currentBuffer_.bufferSize
                 pad == rd.currentBuffer_.paddingSize
                 target == rd.currentBuffer_.buffer
                 landed == [i \in 1..Len(Storage(rd, target.base)) |->
                              IF i > target.off /\ i <= target.off + Min(b, available)
                              THEN stream[rd.pos + (i - target.off)]
                              ELSE Storage(rd, target.base)[i]]
             IN /\ Storage(rd', target.base) = landed
                /\ available < b => rd'.currentBuffer_.paddingSize = pad
                /\ available < b + pad
                   => /\ rd'.ret = "false"
                      /\ rd'.state_ = rd.state_
                      /\ rd'.published = rd.published
                      /\ rd'.pos = rd.pos + available
                      /\ rd'.currentBuffer_.paddingSize = pad - (available - Min(b, available))
                      /\ \A base \in {"prefix_", "header_", "postfix_"} \cup DataTypes :
                            base # target.base => Storage(rd', base) = Storage(rd, base)
                /\ available >= b + pad
                   => /\ rd'.state_ # rd.state_ \/ rd'.ret \in {"throw", "abort"}
                      /\ rd'.pos >= rd.pos + b + pad
                      /\ available > b + pad
                         => rd'.postfix_ = <<stream[rd.pos + b + pad + 1]>>
                      /\ (available > b + pad /\ rd'.ret = "true")
                         => /\ Len(rd'.published) = Len(rd.published) + 1
                            /\ rd'.published[Len(rd'.published)].data = landed]_vars

\* A poll has ended in the middle of the padding: the payload is complete in
\* its landing buffer, one padding byte is discarded and one is outstanding.
C28_Witness ==
    /\ rd.ret = "false"
    /\ rd.state_ = "Data"
    /\ rd.currentBuffer_.bufferSize = 0
    /\ rd.currentBuffer_.paddingSize = 1
    /\ rd.currentBuffer_.publisher # NoPublisher
    /\ find(dataBufferRegistery_, HeaderOf(rd.header_)).paddingSize = 2

\* C30: setDataPublisher succeeds on a reader no read() call has been made on
\* since its construction or its last close(), and ends in a failed assertion
\* on a reader that has been read from and not closed since.
C30_RegistrationWindow ==
    [][\A Data \in DataTypes :
          SetDataPublisher(Data) => (rd'.ret = "abort" <=> rd.ret # "none")]_vars

C4_PublishAfterPostfix ==
    /\ \A i \in DOMAIN rd.published :
          LET c == rd.published[i]
              payloadEnd == c.pos - PostfixSize
              headerEnd == payloadEnd - sizeof[c.publisher]
          IN /\ headerEnd >= sizeofHeader
             /\ protocol.Postfix_t => SubSeq(stream, payloadEnd + 1, c.pos) = PostfixValue
             /\ SubSeq(stream, headerEnd + 1, payloadEnd) = c.data
             /\ HeaderEq(HeaderOf(SubSeq(stream, headerEnd - sizeofHeader + 1, headerEnd)),
                         Header(c.publisher))
             /\ \A j \in DOMAIN rd.published : j < i => rd.published[j].pos <= headerEnd - sizeofHeader
    /\ ~rd.registeredLate =>
          \A at \in rd.headerAt : \A Data \in DataTypes :
             LET end == at + sizeofHeader + sizeof[Data] + PostfixSize
             IN (/\ Registered(Data)
                 /\ end <= rd.pos
                 /\ SubSeq(stream, at + 1, at + sizeofHeader) = HeaderBytes(Header(Data))
                 /\ protocol.Postfix_t => SubSeq(stream, end, end) = PostfixValue)
                => \E i \in DOMAIN rd.published :
                      rd.published[i].pos = end /\ rd.published[i].publisher = Data

\* Two frames consumed and published behind a verified postfix.
C4_Witness ==
    /\ protocol.Postfix_t
    /\ Len(rd.published) = 2
    /\ rd.published[1].pos < rd.pos

\* C5: when the postfix of an otherwise valid frame differs from the
\* delimiter, the read() call that completes the postfix reports a framing
\* error and no completion callback is made for that frame.
C5_PostfixIntegrity ==
    (rd.failureMessage = PostfixMismatch /\ rd.currentBuffer_.publisher # NoPublisher)
    => /\ rd.ret \in {"throw", "abort"}
       /\ \A i \in DOMAIN rd.published : rd.published[i].pos # rd.pos

\* C6: when a completed header is not in the directory, the read() call
\* reports a fatal framing error, has consumed nothing behind the header and
\* has made no completion callback for the frame.
C6_UnrecognizedHeader ==
    rd.failureMessage = DataBufferNull
    => /\ rd.ret \in {"throw", "abort"}
       /\ rd.pos - sizeofHeader \in rd.headerAt
       /\ \A i \in DOMAIN rd.published : rd.published[i].pos # rd.pos

\* C7: read() returns true exactly when the call consumed a frame to its end
\* and made its completion callback; a call that consumes no byte returns false.
C7_ReturnValue ==
    [][\A available \in 0..MaxAvailable :
          (Poll(available) /\ rd'.ret \in {"true", "false"})
          => /\ rd'.ret = "true" <=> Len(rd'.published) > Len(rd.published)
             /\ rd'.pos = rd.pos => rd'.ret = "false"]_vars

\* C8: when the validation of a completed state fails (postfix unequal to the
\* delimiter, header unknown to the directory), state_ becomes SyncLost and
\* the read() call reports a framing error instead of returning false.
C8_ValidationFailure ==
    rd.failureMessage \in {PostfixMismatch, HeaderMismatch, DataBufferNull}
    => /\ rd.state_ = "SyncLost"
       /\ rd.ret \in {"throw", "abort"}

\* C9: SyncLost is terminal: a read() call made in SyncLost leaves the reader
\* in SyncLost, consumes nothing, makes no callback and does not return true.
C9_SyncLostTerminal ==
    [][\A available \in 0..MaxAvailable :
          (Poll(available) /\ rd.state_ = "SyncLost")
          => /\ rd'.state_ = "SyncLost"
             /\ rd'.pos = rd.pos
             /\ rd'.published = rd.published
             /\ rd'.ret # "true"]_vars

(***************************************************************************)
(* Properties of the older StreamDeserialiser, checked under               *)
(* SpecDeserialiser and SpecRegistry                                       *)
(***************************************************************************)
\* The dataBufferComplete() calls an update() call made, and whether the
\* last of them was for a payload read to its end: the header_ and the
\* bytes delivered are the bytes of the stream that end at the position
\* reached.
CompletedBy(before, after) == Len(after.completed) - Len(before.completed)

ReadToItsEnd(d) ==
    LET n == Num(BinaryHeader(d.header_).dataBytes)
        last == d.completed[Len(d.completed)]
    IN /\ d.pos >= n + sizeofBinaryHeader
       /\ SubSeq(d.in, (d.pos - n - sizeofBinaryHeader) + 1, d.pos - n) = d.header_
       /\ Len(last.data) >= n
       /\ SubSeq(last.data, 1, n) = SubSeq(d.in, (d.pos - n) + 1, d.pos)
       /\ last.pos = d.pos

\* C31: update() returns true exactly when in that call a payload was read
\* to its end and dataBufferComplete() was called for it; a call completes
\* at most one frame; after a call that returned true the deserialiser is
\* idle (no current payload, read count 0) and the next byte read is stored
\* as the first byte of a header.
C31_UpdateResult ==
    [][ds'.op = "update" =>
          /\ (ds'.ret = "true") <=> (CompletedBy(ds, ds') = 1 /\ ReadToItsEnd(ds'))
          /\ CompletedBy(ds, ds') \in {0, 1}
          /\ ds'.ret = "true" => ds'.currentPayload_ = "nullptr" /\ ds'.readCount_ = 0
          /\ (ds.ret = "true" /\ ds'.pos > ds.pos) => ds'.header_[1] = ds.in[ds.pos + 1]]_vars

\* A call made with two whole frames waiting returned true for the first.
C31_Witness ==
    /\ ds.ret = "true"
    /\ Len(ds.completed) = 1
    /\ ds.avail >= sizeofBinaryHeader + 1
    /\ ds.avail = Len(ds.in) - ds.pos

\* The typeIds a lookup is made with: those of the names a type can be
\* constructed under, and that of a type never named.
TypeIds == {setDataNameHash(StreamDeserialiser.state_["A"], typeName).typeId :
               typeName \in 0..Len(Literals)}

\* C32: after registerDataBuffer calls within capacity the registry is sorted
\* by typeId, and findDataBuffer(id) returns a registered buffer whose
\* typeId equals id when one is registered, nullptr otherwise.
C32_RegistrySorted ==
    ds.fault = "none" =>
        /\ Len(ds.bufferRegistry_) <= StreamDeserialiser_cMaxDataBufferCount
        /\ is_sorted(ds)
        /\ \A id \in TypeIds :
              LET registered == {Data \in Range(ds.bufferRegistry_) :
                                    IDataBuffer_typeId(ds, Data) = id}
                  found == findDataBuffer(ds, U32(id))
              IN IF registered = {} THEN found = "nullptr" ELSE found \in registered

(***************************************************************************)
(* Properties of BinaryReader on the routing and the course of one read()  *)
(***************************************************************************)
\* The landing buffers a step has stored into.
Written == {Data \in DataTypes : rd'.mem[Data] # rd.mem[Data]}

\* C34: a completion callback is made on the publisher registered for the
\* header of the frame just completed, the landing buffer registered for
\* that header then holds exactly the payload bytes of that frame, and no
\* landing buffer of another type is stored into for that frame.
C34_Routing ==
    [][LET entry == find(dataBufferRegistery_, HeaderOf(rd'.header_))
       IN /\ \A Data \in Written :
                entry.buffer.base = Data /\ HeaderOf(rd'.header_) = Header(Data)
          /\ Len(rd'.published) > Len(rd.published) =>
                LET c == rd'.published[Len(rd'.published)]
                    payloadEnd == c.pos - PostfixSize
                    headerEnd == payloadEnd - Len(c.data)
                IN /\ Len(rd'.published) = Len(rd.published) + 1
                   /\ headerEnd >= sizeofHeader
                   /\ SubSeq(stream, (headerEnd - sizeofHeader) + 1, headerEnd) = rd'.header_
                   /\ entry.publisher = c.publisher
                   /\ entry.buffer.base = c.publisher
                   /\ rd'.mem[c.publisher] = SubSeq(stream, headerEnd + 1, payloadEnd)
                   /\ c.data = rd'.mem[c.publisher]]_vars

\* A frame of each type has been routed to its own landing buffer.
C34_Witness ==
    /\ Len(rd.published) = 2
    /\ rd.published[1].publisher # rd.published[2].publisher
    /\ \A i \in 1..2 : rd.mem[rd.published[i].publisher] = rd.published[i].data

\* The size of the storage a descriptor of the reader was made for.
SizeOfStorage(base) ==
    CASE base = "prefix_"  -> IF protocol.Prefix_t THEN Len(PrefixValue) ELSE 0
      [] base = "header_"  -> sizeofHeader
      [] base = "postfix_" -> IF protocol.Postfix_t THEN Len(PostfixValue) ELSE 0
      [] base \in DataTypes -> sizeof[base]
      [] OTHER -> 0

\* C35: in every state of the reader whose cursor points into a buffer, the
\* bytes stored into that buffer for the frame in flight plus the remaining
\* bufferSize are the size the buffer was registered with; the remaining
\* count never goes below zero, and no buffer has grown by a byte stored
\* behind its end.
C35_CursorInvariant ==
    LET cursor == rd.currentBuffer_
        stored == cursor.buffer.off
    IN /\ cursor.bufferSize >= 0
       /\ cursor.buffer # NullPtr =>
             stored + cursor.bufferSize = SizeOfStorage(cursor.buffer.base)
       /\ \A Data \in DataTypes : Len(rd.mem[Data]) = sizeof[Data]
       /\ \A base \in {"prefix_", "header_", "postfix_"} :
             Len(Storage(rd, base)) = Len(Storage(BinaryReader, base))

\* The header of a second frame lies half received in header_.
C35_Witness ==
    /\ rd.state_ = "Header"
    /\ Len(rd.published) = 1
    /\ rd.currentBuffer_.buffer.base = "header_"
    /\ rd.currentBuffer_.buffer.off > 0
    /\ rd.currentBuffer_.bufferSize > 0

\* C36: one read() call makes at most one completion callback, however many
\* whole frames wait in the stream and whatever state the call starts in.
C36_OneCallbackPerRead ==
    [][Len(rd'.published) <= Len(rd.published) + 1]_vars

\* A call made with two frames waiting has delivered the first and left the
\* rest of the second waiting.
C36_Witness ==
    /\ rd.ret = "true"
    /\ Len(rd.published) = 1
    /\ rd.avail >= sizeofHeader + sizeof["A"] + PostfixSize
    /\ rd.avail = Len(stream) - rd.pos

\* C37: every read() call ends after finitely many transitions, whatever
\* the stream holds and whether a part or all of it waits: the loop makes at most
\* one readBuffer call for each state but SyncLost, and it ends with a
\* readBuffer that returned false (or did not return) or in state Header.
C37_ReadTerminates ==
    rd.ret # "abort" =>
        \A available \in {a \in 0..MaxAvailable : a <= Len(stream) - rd.pos}
                            \cup {Len(stream) - rd.pos} :
            LET run == Transitions([rd EXCEPT !.avail = available, !.ret = "none",
                                              !.failureMessage = NoMessage], 0)
            IN /\ run.count <= Cardinality(States) - 1
               /\ \/ run.reader.ret \in {"false", "throw", "abort"}
                  \/ run.reader.ret = "true" /\ run.reader.state_ = "Header"

\* A call with the rest of the stream waiting has come back in state Header
\* behind the postfix of a frame and the prefix of the next.
C37_Witness ==
    /\ protocol.Prefix_t
    /\ rd.ret = "true"
    /\ rd.state_ = "Header"
    /\ Len(rd.published) = 1
    /\ rd.published[1].pos + Len(PrefixValue) = rd.pos
    /\ rd.avail = Len(stream) - rd.pos
    /\ rd.avail > 0


(***************************************************************************)
(* Properties of the type identity between writer and directory, checked  *)
(* under SpecNaming                                                        *)
(***************************************************************************)
\* C39: for every type whose landing buffer has been registered in the
\* reader's directory, after any handle constructions that set its type
\* identity, the header the writer emits for a value of the type (typeId
\* read from the broker at write time, size sizeof) equals the header the
\* buffer was registered under, and find on it returns that landing buffer.
C39_WriterDirectoryIdentity ==
    naming.fault = "none"
    => \A Data \in DOMAIN naming.registered :
          /\ HeaderNow(naming, Data) = naming.registered[Data]
          /\ find(dataBufferRegistery_, HeaderNow(naming, Data))
                = Buffer([base |-> Data, off |-> 0], sizeof[Data], 0, Data)

====
